---- MODULE Spec2Model ----
(***************************************************************************)
(* A model of the file-based test manager: the File System Service's       *)
(* directory cache and watcher registry, the Manifest Service's batch      *)
(* processing, the error layer's retryOperation and manifest discovery.    *)
(* Every subsystem has its own specification over the shared variables;    *)
(* the variables a specification does not use keep their initial value.    *)
(***************************************************************************)
EXTENDS Integers, Sequences, FiniteSets, TLC

VARIABLES
    directoryCache,   \* part_004:12  Map cacheKey -> cached scan/structure result
    cacheStats,       \* part_004:14  { hits, misses, size }
    watchers,         \* part_004:13  Map watcherId -> watcher, in insertion order
    closeLog,         \* the close() calls made on chokidar watchers and their outcome
    nextWatcherId,    \* the ids watchDirectory has generated so far
    calls,            \* the async calls in flight, each suspended at an await
    returned,         \* the results the completed calls resolved to, in order
    started,          \* the number of calls made so far
    retry,            \* part_005:528  one retryOperation call: its locals and position
    schemas,          \* part_003:12   ManifestService.schemas: the loaded schema names
    batch,            \* part_003:164  one processManifestFiles call: locals and position
    validation,       \* part_003:76   the last direct validateManifest call and its outcome
    dirs,             \* the file system: the directories, as lists of path components
    files,            \* the file system: the regular files
    unreadable,       \* the file system: the directories readdir fails on (EACCES)
    fsError,          \* the file system: one readdir or stat that fails, and its error
    discovery,        \* part_004:129  the last discoverManifestFiles call and its result
    scan,             \* part_004:38   the last scanDirectory call and its result
    helper,           \* one call of a stateless helper: its arguments and its outcome
    model             \* BaseModel.js:10  one entity model and the objects handed out

cacheVars == <<directoryCache, cacheStats>>
watchVars == <<watchers, closeLog, nextWatcherId>>
callVars == <<calls, returned, started>>
retryVars == <<retry>>
manifestVars == <<schemas, batch, validation>>
fsVars == <<dirs, files, unreadable, fsError>>
discoveryVars == <<discovery, scan>>
vars == <<directoryCache, cacheStats, watchers, closeLog, nextWatcherId,
          calls, returned, started, retry, schemas, batch, validation,
          dirs, files, unreadable, fsError, discovery, scan, helper, model>>

\* What the operations of one component leave alone.
notCache == <<watchVars, retryVars, manifestVars, fsVars, discoveryVars, helper, model>>
notWatch == <<cacheVars, retryVars, manifestVars, fsVars, discoveryVars, helper, model>>
notRetry == <<cacheVars, watchVars, callVars, manifestVars, fsVars, discoveryVars, helper, model>>
notManifest == <<cacheVars, watchVars, callVars, retryVars, fsVars, discoveryVars, helper, model>>
notDiscovery == <<cacheVars, watchVars, callVars, retryVars, manifestVars, helper, model>>
notHelper == <<cacheVars, watchVars, callVars, retryVars, manifestVars, fsVars,
               discoveryVars, model>>
notModel == <<cacheVars, watchVars, callVars, retryVars, manifestVars, fsVars,
              discoveryVars, helper>>

(***************************************************************************)
(* Bounds of the model.                                                    *)
(***************************************************************************)
MaxCalls == 4
NumProcs == 2
MaxMaxRetries == 4
MaxFiles == 2
MaxNameParts == 2
MaxEntries == 4
MaxScanEntries == 3
MaxScanDepth == 2
MaxFaultEntries == 1
MaxDataKeys == 3
MaxModelOps == 4
MaxHandedOut == 1
MaxListOps == 3
MaxCount == 5
MaxOverlapCalls == 3

Procs == 1..NumProcs
Paths == {"/a", "/b"}

(***************************************************************************)
(* The event loop: a call is either not in flight or suspended at an await.*)
(***************************************************************************)
Idle == [call |-> 0, op |-> "none", arg |-> <<>>, pc |-> "idle", visited |-> <<>>,
         cleanedUp |-> 0]

AllIdle == \A c \in Procs : calls[c].pc = "idle"

\* A call is made: it gets the next call number.
Begin(c) ==
    /\ calls[c].pc = "idle"
    /\ started < MaxCalls
    /\ started' = started + 1

\* The call in slot c resolves to result.
Return(c, call, op, arg, result) ==
    /\ returned' = Append(returned,
                          [call |-> call, op |-> op, arg |-> arg, result |-> result])
    /\ calls' = [calls EXCEPT ![c] = Idle]

\* The call in slot c suspends at the await named pc.
Suspend(c, op, arg, pc) ==
    /\ calls' = [calls EXCEPT ![c] = [Idle EXCEPT !.call = started + 1, !.op = op,
                                                  !.arg = arg, !.pc = pc]]
    /\ returned' = returned

(***************************************************************************)
(* The directory cache (part_004:1150-1251).                               *)
(***************************************************************************)
ScanKey(path) == <<"scan", path>>
StructureKey(path) == <<"structure", path>>
CacheKeys == {ScanKey(p) : p \in Paths} \cup {StructureKey(p) : p \in Paths}
                 \cup {<<"other", "/a">>}

MapSize(m) == Cardinality(DOMAIN m)
MapSet(m, k, v) == [x \in DOMAIN m \cup {k} |-> IF x = k THEN v ELSE m[x]]
MapDelete(m, k) == [x \in DOMAIN m \ {k} |-> m[x]]
EmptyMap == [x \in {} |-> TRUE]

\* The scan result an await of scanDirectory resolves to: a success result or
\* the failure envelope of handleFileSystemError; either is a (truthy) object.
ScanResults == {[success |-> TRUE], [success |-> FALSE]}

\* A JavaScript number division a / b, kept exact: NaN for 0 / 0.
Divide(a, b) == IF b = 0 THEN [nan |-> TRUE, num |-> 0, den |-> 1]
                ELSE [nan |-> FALSE, num |-> a, den |-> b]
\* x || 0 on a number: NaN and 0 are falsy.
OrZero(x) == IF x.nan \/ x.num = 0 THEN [nan |-> FALSE, num |-> 0, den |-> 1] ELSE x

getCacheStats ==
    [hits |-> cacheStats.hits, misses |-> cacheStats.misses, size |-> cacheStats.size,
     hitRate |-> OrZero(Divide(cacheStats.hits, cacheStats.hits + cacheStats.misses))]

\* optimizeDirectoryScanning up to its await: a hit returns at once.
OptimizeBeginNoHitCount(c, path) ==
    /\ Begin(c)
    /\ IF ScanKey(path) \in DOMAIN directoryCache
       THEN /\ Return(c, started + 1, "optimizeDirectoryScanning", path,
                      [optimized |-> TRUE, scanTime |-> "zero", cached |-> TRUE,
                       success |-> TRUE])
            /\ UNCHANGED cacheVars
       ELSE /\ Suspend(c, "optimizeDirectoryScanning", path, "scanDirectory")
            /\ UNCHANGED cacheVars
    /\ UNCHANGED notCache

OptimizeBegin(c, path) ==
    /\ Begin(c)
    /\ IF ScanKey(path) \in DOMAIN directoryCache
       THEN /\ cacheStats' = [cacheStats EXCEPT !.hits = @ + 1]
            /\ Return(c, started + 1, "optimizeDirectoryScanning", path,
                      [optimized |-> TRUE, scanTime |-> "zero", cached |-> TRUE,
                       success |-> TRUE])
            /\ UNCHANGED directoryCache
       ELSE /\ Suspend(c, "optimizeDirectoryScanning", path, "scanDirectory")
            /\ UNCHANGED cacheVars
    /\ UNCHANGED notCache

OptimizeResumeCountsEntry(c, result) ==
    /\ calls[c].op = "optimizeDirectoryScanning"
    /\ calls[c].pc = "scanDirectory"
    /\ directoryCache' = MapSet(directoryCache, ScanKey(calls[c].arg), result)
    /\ cacheStats' = [cacheStats EXCEPT !.misses = @ + 1, !.size = @ + 1]
    /\ Return(c, calls[c].call, "optimizeDirectoryScanning", calls[c].arg,
              [optimized |-> TRUE, scanTime |-> "measured", cached |-> FALSE,
               success |-> TRUE])
    /\ UNCHANGED <<notCache, started>>

\* optimizeDirectoryScanning after scanDirectory resolved to result.
OptimizeResume(c, result) ==
    /\ calls[c].op = "optimizeDirectoryScanning"
    /\ calls[c].pc = "scanDirectory"
    /\ directoryCache' = MapSet(directoryCache, ScanKey(calls[c].arg), result)
    /\ cacheStats' = [cacheStats EXCEPT !.misses = @ + 1,
                                        !.size = MapSize(directoryCache')]
    /\ Return(c, calls[c].call, "optimizeDirectoryScanning", calls[c].arg,
              [optimized |-> TRUE, scanTime |-> "measured", cached |-> FALSE,
               success |-> TRUE])
    /\ UNCHANGED <<notCache, started>>

\* cacheDirectoryStructure up to its await of getDirectoryStructure.
CacheStructureBegin(c, path) ==
    /\ Begin(c)
    /\ Suspend(c, "cacheDirectoryStructure", path, "getDirectoryStructure")
    /\ UNCHANGED <<cacheVars, notCache>>

\* cacheDirectoryStructure after getDirectoryStructure resolved to structure.
CacheStructureResume(c, structure) ==
    /\ calls[c].op = "cacheDirectoryStructure"
    /\ calls[c].pc = "getDirectoryStructure"
    /\ IF ~structure.success
       THEN /\ Return(c, calls[c].call, "cacheDirectoryStructure", calls[c].arg, structure)
            /\ UNCHANGED cacheVars
       ELSE /\ directoryCache' =
                   MapSet(directoryCache, StructureKey(calls[c].arg), structure)
            /\ cacheStats' = [cacheStats EXCEPT !.size = MapSize(directoryCache')]
            /\ Return(c, calls[c].call, "cacheDirectoryStructure", calls[c].arg,
                      [cached |-> TRUE, cacheKey |-> StructureKey(calls[c].arg),
                       success |-> TRUE])
    /\ UNCHANGED <<notCache, started>>

InvalidateCacheClearsAll(c, cacheKey) ==
    /\ Begin(c)
    /\ directoryCache' = EmptyMap
    /\ cacheStats' = [cacheStats EXCEPT !.size = MapSize(directoryCache')]
    /\ Return(c, started + 1, "invalidateCache", cacheKey,
              [invalidated |-> TRUE, deleted |-> cacheKey \in DOMAIN directoryCache,
               success |-> TRUE])
    /\ UNCHANGED notCache

\* invalidateCache has no await: it runs to completion in one turn.
InvalidateCache(c, cacheKey) ==
    /\ Begin(c)
    /\ directoryCache' = MapDelete(directoryCache, cacheKey)
    /\ cacheStats' = [cacheStats EXCEPT !.size = MapSize(directoryCache')]
    /\ Return(c, started + 1, "invalidateCache", cacheKey,
              [invalidated |-> TRUE, deleted |-> cacheKey \in DOMAIN directoryCache,
               success |-> TRUE])
    /\ UNCHANGED notCache

(***************************************************************************)
(* The watcher registry (part_004:211-280, 859-909).                       *)
(***************************************************************************)
\* The ids a caller may pass: those generated so far and ones never generated.
WatcherIds == 1..MaxCalls

Range(seq) == {seq[i] : i \in DOMAIN seq}
Without(seq, x) == SelectSeq(seq, LAMBDA y : y # x)

\* Outcomes of watcher.close(): it resolves or it rejects.
CloseOutcomes == {TRUE, FALSE}

\* handleWatchError(error): the failure envelope of the watch operations.
handleWatchError(message) ==
    [success |-> FALSE, error |-> message, errorType |-> "watch_error",
     suggestions |-> <<"Check directory path", "Verify permissions", "Restart the service">>]

\* watchDirectory has no await. chokidar.watch either returns a watcher, stored
\* under a newly generated id, or throws (handleWatchError).
WatchDirectory(c, path, watchOk) ==
    /\ Begin(c)
    /\ IF watchOk
       THEN /\ watchers' = Append(watchers, nextWatcherId)
            /\ nextWatcherId' = nextWatcherId + 1
            /\ Return(c, started + 1, "watchDirectory", path,
                      [success |-> TRUE, watcherId |-> nextWatcherId,
                       directoryPath |-> path])
       ELSE /\ UNCHANGED <<watchers, nextWatcherId>>
            /\ Return(c, started + 1, "watchDirectory", path,
                      handleWatchError("watch failed"))
    /\ UNCHANGED <<notWatch, closeLog>>

\* watcher.close() is invoked by the call numbered call; its promise is pending.
CloseInvoked(log, watcherId, call) ==
    Append(log, [watcherId |-> watcherId, call |-> call, outcome |-> "pending"])
\* The pending close() of the call numbered call settles.
CloseSettled(log, call, closeOk) ==
    [k \in DOMAIN log |->
        IF log[k].call = call /\ log[k].outcome = "pending"
        THEN [log[k] EXCEPT !.outcome = IF closeOk THEN "resolved" ELSE "rejected"]
        ELSE log[k]]

\* pauseWatching and resumeWatching only look the watcher up; neither has an
\* await.
PauseWatching(c, watcherId) ==
    /\ Begin(c)
    /\ Return(c, started + 1, "pauseWatching", watcherId,
              IF watcherId \notin Range(watchers)
              THEN [success |-> FALSE, error |-> "Watcher not found"]
              ELSE [success |-> TRUE, watcherId |-> watcherId, paused |-> TRUE])
    /\ UNCHANGED <<notWatch, watchVars>>

ResumeWatching(c, watcherId) ==
    /\ Begin(c)
    /\ Return(c, started + 1, "resumeWatching", watcherId,
              IF watcherId \notin Range(watchers)
              THEN [success |-> FALSE, error |-> "Watcher not found"]
              ELSE [success |-> TRUE, watcherId |-> watcherId, resumed |-> TRUE])
    /\ UNCHANGED <<notWatch, watchVars>>

\* stopWatching up to its await of watcher.close().
StopWatchingBegin(c, watcherId) ==
    /\ Begin(c)
    /\ IF watcherId \notin Range(watchers)
       THEN /\ Return(c, started + 1, "stopWatching", watcherId,
                      [success |-> FALSE, error |-> "Watcher not found",
                       errorType |-> "watcher_not_found"])
            /\ closeLog' = closeLog
       ELSE /\ Suspend(c, "stopWatching", watcherId, "close")
            /\ closeLog' = CloseInvoked(closeLog, watcherId, started + 1)
    /\ UNCHANGED <<notWatch, watchers, nextWatcherId>>

StopWatchingResumeKeepEntry(c, closeOk) ==
    /\ calls[c].op = "stopWatching"
    /\ calls[c].pc = "close"
    /\ closeLog' = CloseSettled(closeLog, calls[c].call, closeOk)
    /\ watchers' = watchers
    /\ IF closeOk
       THEN Return(c, calls[c].call, "stopWatching", calls[c].arg,
                   [success |-> TRUE, watcherId |-> calls[c].arg, stopped |-> TRUE])
       ELSE Return(c, calls[c].call, "stopWatching", calls[c].arg,
                   handleWatchError("close failed"))
    /\ UNCHANGED <<notWatch, nextWatcherId, started>>

\* stopWatching after close() settled: the entry is deleted only when it resolved;
\* a rejection goes to handleWatchError.
StopWatchingResume(c, closeOk) ==
    /\ calls[c].op = "stopWatching"
    /\ calls[c].pc = "close"
    /\ closeLog' = CloseSettled(closeLog, calls[c].call, closeOk)
    /\ IF closeOk
       THEN /\ watchers' = Without(watchers, calls[c].arg)
            /\ Return(c, calls[c].call, "stopWatching", calls[c].arg,
                      [success |-> TRUE, watcherId |-> calls[c].arg, stopped |-> TRUE])
       ELSE /\ watchers' = watchers
            /\ Return(c, calls[c].call, "stopWatching", calls[c].arg,
                      handleWatchError("close failed"))
    /\ UNCHANGED <<notWatch, nextWatcherId, started>>

\* The Map iterator of cleanupWatchers: the entries, in insertion order, that the
\* loop has not visited yet (entries deleted meanwhile are skipped, entries
\* added meanwhile are visited).
Unvisited(visited) == SelectSeq(watchers, LAMBDA w : w \notin Range(visited))

\* cleanupWatchers up to its first await of watcher.close(); with an empty
\* registry the loop body never runs.
CleanupBegin(c) ==
    /\ Begin(c)
    /\ IF Unvisited(<<>>) = <<>>
       THEN /\ watchers' = <<>>
            /\ closeLog' = closeLog
            /\ Return(c, started + 1, "cleanupWatchers", <<>>,
                      [success |-> TRUE, cleanedUp |-> 0])
       ELSE /\ watchers' = watchers
            /\ closeLog' = CloseInvoked(closeLog, Head(Unvisited(<<>>)), started + 1)
            /\ calls' = [calls EXCEPT ![c] =
                   [Idle EXCEPT !.call = started + 1, !.op = "cleanupWatchers",
                                !.pc = "close", !.visited = <<Head(Unvisited(<<>>))>>]]
            /\ returned' = returned
    /\ UNCHANGED <<notWatch, nextWatcherId>>

CleanupResumeAbortOnError(c, closeOk) ==
    /\ calls[c].op = "cleanupWatchers"
    /\ calls[c].pc = "close"
    /\ LET cleanedUp == calls[c].cleanedUp + (IF closeOk THEN 1 ELSE 0)
           rest == Unvisited(calls[c].visited)
           settled == CloseSettled(closeLog, calls[c].call, closeOk)
       IN  IF rest = <<>> \/ ~closeOk
           THEN /\ watchers' = <<>>
                /\ closeLog' = settled
                /\ Return(c, calls[c].call, "cleanupWatchers", <<>>,
                          [success |-> TRUE, cleanedUp |-> cleanedUp])
           ELSE /\ watchers' = watchers
                /\ closeLog' = CloseInvoked(settled, Head(rest), calls[c].call)
                /\ calls' = [calls EXCEPT ![c].cleanedUp = cleanedUp,
                                          ![c].visited = Append(@, Head(rest))]
                /\ returned' = returned
    /\ UNCHANGED <<notWatch, nextWatcherId, started>>

\* cleanupWatchers after one close() settled: count it if it resolved (a
\* rejection is logged and swallowed), close the next entry, and clear the
\* registry after the last one.
CleanupResume(c, closeOk) ==
    /\ calls[c].op = "cleanupWatchers"
    /\ calls[c].pc = "close"
    /\ LET cleanedUp == calls[c].cleanedUp + (IF closeOk THEN 1 ELSE 0)
           rest == Unvisited(calls[c].visited)
           settled == CloseSettled(closeLog, calls[c].call, closeOk)
       IN  IF rest = <<>>
           THEN /\ watchers' = <<>>
                /\ closeLog' = settled
                /\ Return(c, calls[c].call, "cleanupWatchers", <<>>,
                          [success |-> TRUE, cleanedUp |-> cleanedUp])
           ELSE /\ watchers' = watchers
                /\ closeLog' = CloseInvoked(settled, Head(rest), calls[c].call)
                /\ calls' = [calls EXCEPT ![c].cleanedUp = cleanedUp,
                                          ![c].visited = Append(@, Head(rest))]
                /\ returned' = returned
    /\ UNCHANGED <<notWatch, nextWatcherId, started>>

\* getWatcherStatus reads the registry and has no await.
getWatcherStatus(watcherId) ==
    IF watcherId \notin Range(watchers)
    THEN [watcherId |-> watcherId, status |-> "not_found", active |-> FALSE]
    ELSE [watcherId |-> watcherId, status |-> "active", active |-> TRUE]

(***************************************************************************)
(* retryOperation (part_005:528-559).                                      *)
(***************************************************************************)
DefaultMaxRetries == 3
DefaultBaseDelay == 1000

\* The options a caller passes: a field is given or left to its default.
NoOption == [given |-> FALSE, value |-> 0]
Option(v) == [given |-> TRUE, value |-> v]
OrDefault(option, default) == IF option.given THEN option.value ELSE default

MaxRetriesOptions == {NoOption} \cup {Option(n) : n \in 0..MaxMaxRetries}
BaseDelayOptions == {NoOption, Option(0), Option(1), Option(250)}

\* What one invocation of the operation settles to.
OperationOutcomes ==
    {[ok |-> TRUE, value |-> v] : v \in {"value1", "value2"}}
        \cup {[ok |-> FALSE, value |-> m] : m \in {"Temporary failure", "Permanent failure"}}

NoError == [defined |-> FALSE, message |-> ""]

RetryIdle ==
    [pc |-> "idle", maxRetries |-> 0, baseDelay |-> 0, attempt |-> 0,
     lastError |-> NoError, outcomes |-> <<>>, delays |-> <<>>,
     result |-> [settled |-> "pending"]]

\* The statement after the loop: lastError.message throws a TypeError when no
\* attempt was made, and the async function then rejects.
RetryExhausted(r) ==
    IF r.lastError.defined
    THEN [r EXCEPT !.pc = "done",
                   !.result = [settled |-> "resolved", success |-> FALSE,
                               errorType |-> "max_retries_exceeded",
                               error |-> r.lastError.message,
                               attempts |-> r.maxRetries]]
    ELSE [r EXCEPT !.pc = "done",
                   !.result = [settled |-> "rejected", error |-> "TypeError"]]

\* The loop head: test attempt <= maxRetries and invoke the operation.
RetryLoop(r) ==
    IF r.attempt <= r.maxRetries
    THEN [r EXCEPT !.pc = "operation"]
    ELSE RetryExhausted(r)

\* Exponential backoff: baseDelay * Math.pow(2, attempt - 1).
BackoffDelay(baseDelay, attempt) == baseDelay * 2 ^ (attempt - 1)

\* retryOperation is called: locals are set and the first attempt is made.
RetryBegin(maxRetriesOption, baseDelayOption) ==
    /\ retry.pc = "idle"
    /\ retry' = RetryLoop([RetryIdle EXCEPT
                     !.maxRetries = OrDefault(maxRetriesOption, DefaultMaxRetries),
                     !.baseDelay = OrDefault(baseDelayOption, DefaultBaseDelay),
                     !.attempt = 1])
    /\ UNCHANGED notRetry

RetryOperationSettlesOffByOne(outcome) ==
    /\ retry.pc = "operation"
    /\ LET r == [retry EXCEPT !.outcomes = Append(@, outcome)]
       IN  IF outcome.ok
           THEN retry' = [r EXCEPT !.pc = "done",
                                   !.result = [settled |-> "resolved", success |-> TRUE,
                                               result |-> outcome.value,
                                               attempts |-> r.attempt]]
           ELSE LET failed == [r EXCEPT !.lastError = [defined |-> TRUE,
                                                       message |-> outcome.value]]
                IN  IF failed.attempt > failed.maxRetries
                    THEN retry' = RetryExhausted(failed)
                    ELSE retry' = [failed EXCEPT
                             !.pc = "delay",
                             !.delays = Append(@, BackoffDelay(failed.baseDelay,
                                                               failed.attempt))]
    /\ UNCHANGED notRetry

RetryOperationSettlesKeepsFirstError(outcome) ==
    /\ retry.pc = "operation"
    /\ LET r == [retry EXCEPT !.outcomes = Append(@, outcome)]
       IN  IF outcome.ok
           THEN retry' = [r EXCEPT !.pc = "done",
                                   !.result = [settled |-> "resolved", success |-> TRUE,
                                               result |-> outcome.value,
                                               attempts |-> r.attempt]]
           ELSE LET failed == [r EXCEPT !.lastError =
                                  IF @.defined THEN @
                                  ELSE [defined |-> TRUE, message |-> outcome.value]]
                IN  IF failed.attempt = failed.maxRetries
                    THEN retry' = RetryExhausted(failed)
                    ELSE retry' = [failed EXCEPT
                             !.pc = "delay",
                             !.delays = Append(@, BackoffDelay(failed.baseDelay,
                                                               failed.attempt))]
    /\ UNCHANGED notRetry

\* The awaited operation settles: a value ends the call, an error is kept as
\* lastError and, unless this was the last attempt, a backoff timer is started.
RetryOperationSettles(outcome) ==
    /\ retry.pc = "operation"
    /\ LET r == [retry EXCEPT !.outcomes = Append(@, outcome)]
       IN  IF outcome.ok
           THEN retry' = [r EXCEPT !.pc = "done",
                                   !.result = [settled |-> "resolved", success |-> TRUE,
                                               result |-> outcome.value,
                                               attempts |-> r.attempt]]
           ELSE LET failed == [r EXCEPT !.lastError = [defined |-> TRUE,
                                                       message |-> outcome.value]]
                IN  IF failed.attempt = failed.maxRetries
                    THEN retry' = RetryExhausted(failed)
                    ELSE retry' = [failed EXCEPT
                             !.pc = "delay",
                             !.delays = Append(@, BackoffDelay(failed.baseDelay,
                                                               failed.attempt))]
    /\ UNCHANGED notRetry

\* The backoff timer fires: attempt++ and back to the loop head.
RetryDelayElapses ==
    /\ retry.pc = "delay"
    /\ retry' = RetryLoop([retry EXCEPT !.attempt = @ + 1])
    /\ UNCHANGED notRetry

(***************************************************************************)
(* Strings are sequences of one-character strings, so that substring       *)
(* search, extension and base name are computed as the code computes them. *)
(***************************************************************************)
RECURSIVE Flatten(_)
Flatten(parts) == IF parts = <<>> THEN <<>> ELSE Head(parts) \o Flatten(Tail(parts))

Str_project == <<"p", "r", "o", "j", "e", "c", "t">>
Str_strategy == <<"s", "t", "r", "a", "t", "e", "g", "y">>
Str_plan == <<"p", "l", "a", "n">>
Str_charter == <<"c", "h", "a", "r", "t", "e", "r">>
Str_session == <<"s", "e", "s", "s", "i", "o", "n">>
Str_report == <<"r", "e", "p", "o", "r", "t">>
Str_suite == <<"s", "u", "i", "t", "e">>
Str_case == <<"c", "a", "s", "e">>
Str_status == <<"s", "t", "a", "t", "u", "s">>
Str_json == <<".", "j", "s", "o", "n">>
Str_yaml == <<".", "y", "a", "m", "l">>
Str_yml == <<".", "y", "m", "l">>
Str_txt == <<".", "t", "x", "t">>
Str_JSON == <<".", "J", "S", "O", "N">>
Str_Plan == <<"P", "l", "a", "n">>
Str_final == <<"f", "i", "n", "a", "l">>
Str_2025 == <<"2", "0", "2", "5">>
Str_readme == <<"r", "e", "a", "d", "m", "e">>
Str_testDir == <<"/", "t", "e", "s", "t", "/">>
Str_planDir == <<"/", "p", "l", "a", "n", "/">>

\* String.prototype.includes
Includes(s, k) == \E i \in 1..(Len(s) - Len(k) + 1) : SubSeq(s, i, i + Len(k) - 1) = k
\* String.prototype.endsWith
EndsWith(s, k) == Len(k) <= Len(s) /\ SubSeq(s, Len(s) - Len(k) + 1, Len(s)) = k
\* String.prototype.lastIndexOf, 1-based, 0 when absent
LastIndexOf(s, ch) ==
    LET at == {i \in 1..Len(s) : s[i] = ch}
    IN  IF at = {} THEN 0 ELSE CHOOSE i \in at : \A j \in at : j <= i

UpperToLower == [ch \in {"A", "J", "L", "M", "N", "O", "P", "S", "Y"} |->
                   CASE ch = "A" -> "a" [] ch = "J" -> "j" [] ch = "L" -> "l"
                     [] ch = "M" -> "m" [] ch = "N" -> "n" [] ch = "O" -> "o"
                     [] ch = "P" -> "p" [] ch = "S" -> "s" [] ch = "Y" -> "y"]
\* String.prototype.toLowerCase
ToLowerCase(s) ==
    [i \in 1..Len(s) |-> IF s[i] \in DOMAIN UpperToLower THEN UpperToLower[s[i]] ELSE s[i]]

RECURSIVE StripTrailingSlashes(_)
StripTrailingSlashes(path) ==
    IF Len(path) > 1 /\ path[Len(path)] = "/"
    THEN StripTrailingSlashes(SubSeq(path, 1, Len(path) - 1))
    ELSE path

\* path.basename(path): the last portion of the path.
Basename(path) ==
    LET p == StripTrailingSlashes(path)
    IN  SubSeq(p, LastIndexOf(p, "/") + 1, Len(p))

\* path.extname(path): from the last "." of the base name, "" when there is none
\* or when it is the first character of the base name.
Extname(path) ==
    LET base == Basename(path)
        dot == LastIndexOf(base, ".")
    IN  IF dot <= 1 \/ base = <<".", ".">> THEN <<>> ELSE SubSeq(base, dot, Len(base))

\* path.basename(path, ext): the base name without a trailing ext.
BasenameWithout(path, ext) ==
    LET base == Basename(path)
    IN  IF ext # <<>> /\ ext = path THEN <<>>
        ELSE IF ext # <<>> /\ Len(ext) < Len(base) /\ EndsWith(base, ext)
        THEN SubSeq(base, 1, Len(base) - Len(ext))
        ELSE base

(***************************************************************************)
(* The Manifest Service (part_003).                                        *)
(***************************************************************************)
SchemaNames == {"project", "test-strategy", "test-plan", "test-charter", "test-session",
                "test-report", "test-suite", "test-case", "test-status-report"}

\* The registries loadSchemas can leave behind: a schema file that cannot be
\* loaded is absent from the registry.
Registries == {SchemaNames, SchemaNames \ {"test-plan", "test-report"}, {}}

\* The schema types a caller may name.
SchemaTypes == SchemaNames \cup {"unknown-schema"}

Message(text, detail) == [text |-> text, detail |-> detail]

\* What is at a path when it is read: nothing, an unreadable file, content that
\* does not parse, or parsed data that conforms to one schema or to none.
Contents ==
    {[kind |-> "ENOENT", validFor |-> "none"], [kind |-> "EACCES", validFor |-> "none"],
     [kind |-> "malformed", validFor |-> "none"]}
        \cup {[kind |-> "data", validFor |-> t] :
                 t \in {"none", "project", "test-strategy", "test-report"}}

NullData == [kind |-> "null", validFor |-> "none"]

getFileExtension(filePath) == ToLowerCase(Extname(filePath))

isSupportedFormat(extension) == extension \in {Str_json, Str_yaml, Str_yml}

Threw(error) == [threw |-> TRUE, error |-> error, value |-> NullData]
Value(v) == [threw |-> FALSE, error |-> Message("", <<>>), value |-> v]

\* readManifestFile: the parsed data, or the error it throws.
readManifestFile(filePath, content) ==
    IF ~isSupportedFormat(getFileExtension(filePath))
    THEN Threw(Message("Unsupported file format: ", getFileExtension(filePath)))
    ELSE CASE content.kind = "ENOENT" -> Threw(Message("File not found: ", filePath))
           [] content.kind = "EACCES" -> Threw(Message("EACCES: permission denied", <<>>))
           [] content.kind = "malformed" -> Threw(Message("Unexpected token", <<>>))
           [] OTHER -> Value(content)

Resolved(value) == [settled |-> "resolved", value |-> value]
Rejected(error) == [settled |-> "rejected", value |-> error]

ValidationFailure(filePath, error) ==
    [isValid |-> FALSE, data |-> NullData, errors |-> <<error>>, filePath |-> filePath]

\* The result of the compiled validator on data.
ValidationResult(filePath, schemaType, data) ==
    IF data.validFor = schemaType
    THEN [isValid |-> TRUE, data |-> data, errors |-> <<>>, filePath |-> filePath]
    ELSE [isValid |-> FALSE, data |-> NullData,
          errors |-> <<Message("must have required property", <<>>)>>,
          filePath |-> filePath]

validateManifestLookupOutsideTry(registry, filePath, schemaType, content) ==
    LET read == readManifestFile(filePath, content)
    IN  IF schemaType \notin registry
        THEN Rejected(Message("Unknown schema type: ", <<schemaType>>))
        ELSE IF read.threw THEN Resolved(ValidationFailure(filePath, read.error))
        ELSE Resolved(ValidationResult(filePath, schemaType, read.value))

\* validateManifest: read, look the schema up, validate; whatever is thrown on
\* the way is caught and reported in the result.
validateManifest(registry, filePath, schemaType, content) ==
    LET read == readManifestFile(filePath, content)
    IN  IF read.threw THEN Resolved(ValidationFailure(filePath, read.error))
        ELSE IF schemaType \notin registry
        THEN Resolved(ValidationFailure(filePath,
                          Message("Unknown schema type: ", <<schemaType>>)))
        ELSE Resolved(ValidationResult(filePath, schemaType, read.value))

\* The if / else-if chain of processManifestFiles, in its order.
InferenceTable ==
    << [keyword |-> Str_strategy, schemaType |-> "test-strategy"],
       [keyword |-> Str_plan, schemaType |-> "test-plan"],
       [keyword |-> Str_charter, schemaType |-> "test-charter"],
       [keyword |-> Str_session, schemaType |-> "test-session"],
       [keyword |-> Str_report, schemaType |-> "test-report"],
       [keyword |-> Str_suite, schemaType |-> "test-suite"],
       [keyword |-> Str_case, schemaType |-> "test-case"],
       [keyword |-> Str_status, schemaType |-> "test-status-report"] >>

\* The first row from row i on whose keyword the file name includes.
RECURSIVE FirstMatch(_, _)
FirstMatch(filename, i) ==
    IF i > Len(InferenceTable) THEN "project"
    ELSE IF Includes(filename, InferenceTable[i].keyword) THEN InferenceTable[i].schemaType
    ELSE FirstMatch(filename, i + 1)

InferSchemaTypeProjectFirst(filePath) ==
    LET filename == BasenameWithout(filePath, getFileExtension(filePath))
    IN  IF Includes(filename, Str_project) THEN "project" ELSE FirstMatch(filename, 1)

\* The schema type processManifestFiles infers from the file name.
InferSchemaType(filePath) ==
    FirstMatch(BasenameWithout(filePath, getFileExtension(filePath)), 1)

BatchIdle == [pc |-> "idle", filePaths |-> <<>>, results |-> <<>>, validated |-> <<>>,
              reads |-> <<>>]

\* processManifestFiles is called with a list of paths.
ProcessBegin(filePaths) ==
    /\ batch.pc = "idle"
    /\ batch' = [BatchIdle EXCEPT !.pc = IF filePaths = <<>> THEN "done" ELSE "validate",
                                  !.filePaths = filePaths]
    /\ UNCHANGED <<schemas, validation, notManifest>>

ProcessFileAbortOnFailure(content) ==
    /\ batch.pc = "validate"
    /\ \E filePath \in {batch.filePaths[Len(batch.results) + 1]} :
       \E schemaType \in {InferSchemaType(filePath)} :
       \E outcome \in {validateManifest(schemas, filePath, schemaType, content)} :
       \E result \in {IF outcome.settled = "resolved" THEN outcome.value
                      ELSE ValidationFailure(filePath, outcome.value)} :
           batch' = [batch EXCEPT
               !.results = Append(@, result),
               !.validated = Append(@, [filePath |-> filePath, schemaType |-> schemaType]),
               !.reads = Append(@, content),
               !.pc = IF Len(batch.results) + 1 = Len(batch.filePaths) \/ ~result.isValid
                      THEN "done" ELSE "validate"]
    /\ UNCHANGED <<schemas, validation, notManifest>>

\* One iteration of the loop of processManifestFiles: infer the schema type,
\* await validateManifest and push its result (or the caught error); after the
\* last path the results are returned.
ProcessFile(content) ==
    /\ batch.pc = "validate"
    /\ \E filePath \in {batch.filePaths[Len(batch.results) + 1]} :
       \E schemaType \in {InferSchemaType(filePath)} :
       \E outcome \in {validateManifest(schemas, filePath, schemaType, content)} :
       \E result \in {IF outcome.settled = "resolved" THEN outcome.value
                      ELSE ValidationFailure(filePath, outcome.value)} :
           batch' = [batch EXCEPT
               !.results = Append(@, result),
               !.validated = Append(@, [filePath |-> filePath, schemaType |-> schemaType]),
               !.reads = Append(@, content),
               !.pc = IF Len(batch.results) + 1 = Len(batch.filePaths)
                      THEN "done" ELSE "validate"]
    /\ UNCHANGED <<schemas, validation, notManifest>>

\* A direct call of validateManifest.
ValidateManifest(filePath, schemaType, content) ==
    /\ ~validation.called
    /\ validation' = [called |-> TRUE, filePath |-> filePath, schemaType |-> schemaType,
                      content |-> content,
                      outcome |-> validateManifest(schemas, filePath, schemaType, content)]
    /\ UNCHANGED <<schemas, batch, notManifest>>

\* The paths of the batches: the file names of the examples.
Path_project1 == Flatten(<<Str_testDir, Str_project, <<"1">>, Str_json>>)
Path_strategy1 == Flatten(<<Str_testDir, Str_strategy, <<"1">>, Str_yaml>>)
Path_charterFinal == Flatten(<<Str_testDir, Str_charter, <<"-">>, Str_final, Str_yml>>)
Path_statusReport == Flatten(<<Str_testDir, Str_status, <<"-">>, Str_report, Str_json>>)
Path_projectReport2025 ==
    Flatten(<<Str_testDir, Str_project, <<"-">>, Str_report, <<"-">>, Str_2025, Str_json>>)
Path_readmeTxt == Flatten(<<Str_testDir, Str_readme, Str_txt>>)

ExamplePaths == {Path_project1, Path_strategy1, Path_charterFinal, Path_statusReport,
                 Path_projectReport2025, Path_readmeTxt}

PathLists == UNION {[1..n -> ExamplePaths] : n \in 0..MaxFiles}

\* File names built from the keywords and a few other pieces, in a directory
\* whose own name may hold a keyword.
NameTokens == {Str_project, Str_strategy, Str_plan, Str_charter, Str_session, Str_report,
               Str_suite, Str_case, Str_status, Str_Plan, Str_final, <<"1">>, <<"-">>}
TokenNames == {Flatten(parts) : parts \in UNION {[1..n -> NameTokens] : n \in 1..MaxNameParts}}
TokenPaths == {Flatten(<<dir, name, ext>>) :
                  dir \in {Str_testDir, Str_planDir}, name \in TokenNames,
                  ext \in {Str_json, Str_JSON, Str_txt}}

(***************************************************************************)
(* Directory scanning and manifest discovery (part_004:17-203, 790-814).   *)
(* A path is the list of its components below the file system root.        *)
(***************************************************************************)
MANIFEST_EXTENSIONS == {Str_json, Str_yaml, Str_yml}
DefaultMaxDepth == 10

Name_a_json == <<"a">> \o Str_json
Name_b_YAML == <<"b", ".", "Y", "A", "M", "L">>
Name_c_txt == <<"c">> \o Str_txt
Name_d_yml == <<"d">> \o Str_yml
Name_lib == <<"l", "i", "b">>
Name_sub == <<"s", "u", "b">>
Name_missing == <<"m", "i", "s", "s", "i", "n", "g">>

FileNames == {Name_a_json, Name_b_YAML, Name_c_txt, Name_d_yml}
DirNames == {Name_lib, Name_sub}
\* The order in which readdir lists the entries of a directory.
ListingOrder == <<Name_a_json, Name_b_YAML, Name_c_txt, Name_d_yml, Name_lib, Name_sub>>

\* path.join(directoryPath, entry)
Join(directoryPath, entry) == Append(directoryPath, entry)
Parent(path) == SubSeq(path, 1, Len(path) - 1)

\* fs.readdir(directoryPath): the entry names, in listing order.
Readdir(directoryPath) ==
    SelectSeq(ListingOrder,
              LAMBDA name : Join(directoryPath, name) \in dirs \cup files)

\* The errors fs.readdir and fs.stat reject with: an optional code and a
\* message.  A Node errno error carries its code at the head of its message.
Str_ENOENT == <<"E", "N", "O", "E", "N", "T">>
Str_EACCES == <<"E", "A", "C", "C", "E", "S">>
Str_ENOSPC == <<"E", "N", "O", "S", "P", "C">>
Str_EBUSY == <<"E", "B", "U", "S", "Y">>
Str_EIO == <<"E", "I", "O">>
Str_denied == <<"d", "e", "n", "i", "e", "d">>
CodeText(code) ==
    CASE code = "ENOENT" -> Str_ENOENT
      [] code = "EACCES" -> Str_EACCES
      [] code = "ENOSPC" -> Str_ENOSPC
      [] code = "EBUSY" -> Str_EBUSY
      [] OTHER -> Str_EIO
ErrnoException(code) == [code |-> code, message |-> CodeText(code) \o <<":">>]
ErrorCodes == {"undefined", "ENOENT", "EACCES", "ENOSPC", "EBUSY", "EIO"}
ErrorMessages ==
    {CodeText(code) \o <<":">> : code \in ErrorCodes \ {"undefined"}}
        \cup {Str_denied, Str_EBUSY \o <<":">> \o Str_ENOENT}
FsErrors == [code : ErrorCodes, message : ErrorMessages]

\* No readdir or stat is set to fail.
NoFsError == [op |-> "none", path |-> <<>>, error |-> ErrnoException("EIO")]
Fails(op, path) == fsError.op = op /\ fsError.path = path

handleFileSystemErrorCodeOnly(error) ==
    [success |-> FALSE, error |-> error.message,
     errorType |-> CASE error.code = "ENOENT" -> "file_not_found"
                     [] error.code = "EACCES" -> "permission_denied"
                     [] error.code = "ENOSPC" -> "disk_full"
                     [] error.code = "EBUSY" -> "concurrent_access"
                     [] OTHER -> "file_system_error",
     suggestions |-> <<"Check system logs", "Verify disk health">>]

\* handleFileSystemError(error): the failure envelope, the type being that of
\* the first of ENOENT, EACCES, ENOSPC, EBUSY found as the code or in the message.
handleFileSystemError(error) ==
    LET Matches(code) == error.code = code \/ Includes(error.message, CodeText(code))
    IN  [success |-> FALSE, error |-> error.message,
         errorType |-> IF Matches("ENOENT") THEN "file_not_found"
                       ELSE IF Matches("EACCES") THEN "permission_denied"
                       ELSE IF Matches("ENOSPC") THEN "disk_full"
                       ELSE IF Matches("EBUSY") THEN "concurrent_access"
                       ELSE "file_system_error",
         suggestions |-> IF Matches("ENOENT")
                         THEN <<"Check file path", "Verify file exists">>
                         ELSE IF Matches("EACCES")
                         THEN <<"Check file permissions", "Run with appropriate privileges">>
                         ELSE IF Matches("ENOSPC")
                         THEN <<"Free up disk space", "Clear temporary files">>
                         ELSE IF Matches("EBUSY")
                         THEN <<"File may be in use by another process", "Try again later">>
                         ELSE <<"Check system logs", "Verify disk health">>]

\* await fs.readdir(directoryPath) of scanDirectory: the error it rejects with,
\* if it does.
ReaddirRejects(directoryPath) ==
    directoryPath \notin dirs \/ directoryPath \in unreadable \/ Fails("readdir", directoryPath)
ReaddirError(directoryPath) ==
    IF directoryPath \notin dirs THEN ErrnoException("ENOENT")
    ELSE IF directoryPath \in unreadable THEN ErrnoException("EACCES")
    ELSE fsError.error

SumTotalFiles(results) ==
    LET RECURSIVE Sum(_)
        Sum(i) == IF i = 0 THEN 0 ELSE results[i].totalFiles + Sum(i - 1)
    IN  Sum(Len(results))

\* scanDirectory(directoryPath, { recursive, extensions, maxDepth, currentDepth }).
\* A rejected readdir or stat of the directory's own entries leaves through the
\* catch; a subdirectory whose scan failed is left out of the result.
RECURSIVE scanDirectory(_, _, _, _, _)
scanDirectory(directoryPath, recursive, extensions, maxDepth, currentDepth) ==
    IF currentDepth >= maxDepth
    THEN [path |-> directoryPath, files |-> <<>>, directories |-> <<>>,
          subdirectories |-> <<>>, totalFiles |-> 0, maxDepthReached |-> TRUE,
          success |-> TRUE]
    ELSE IF ReaddirRejects(directoryPath)
    THEN handleFileSystemError(ReaddirError(directoryPath))
    ELSE
      LET entries == Readdir(directoryPath)
          fullPaths == [i \in DOMAIN entries |-> Join(directoryPath, entries[i])]
          directories == SelectSeq(fullPaths, LAMBDA p : p \in dirs)
          scanned == SelectSeq(fullPaths,
                         LAMBDA p : p \in files
                                    /\ ToLowerCase(Extname(p[Len(p)])) \in extensions)
          subResults == IF recursive /\ currentDepth < maxDepth
                        THEN [i \in DOMAIN directories |->
                                scanDirectory(directories[i], recursive, extensions,
                                              maxDepth, currentDepth + 1)]
                        ELSE <<>>
          subdirectories == SelectSeq(subResults, LAMBDA r : r.success)
      IN  IF \E i \in DOMAIN fullPaths : Fails("stat", fullPaths[i])
          THEN handleFileSystemError(fsError.error)
          ELSE [path |-> directoryPath, files |-> scanned, directories |-> directories,
                subdirectories |-> subdirectories,
                totalFiles |-> Len(scanned) + SumTotalFiles(subdirectories),
                maxDepthReached |-> \E i \in DOMAIN subdirectories :
                                        subdirectories[i].maxDepthReached,
                success |-> TRUE]

\* The invocations of scanDirectory that one call makes, itself included, in
\* order: the directory, its depth below the requested one, and whether
\* fs.readdir was called on it.  The entries after one whose stat rejects are
\* not visited.
RECURSIVE scanDirectoryCalls(_, _, _, _)
scanDirectoryCalls(directoryPath, recursive, maxDepth, currentDepth) ==
    IF currentDepth >= maxDepth
    THEN <<[path |-> directoryPath, depth |-> currentDepth, listed |-> FALSE]>>
    ELSE IF ReaddirRejects(directoryPath)
    THEN <<[path |-> directoryPath, depth |-> currentDepth, listed |-> TRUE]>>
    ELSE
      LET entries == Readdir(directoryPath)
          fullPaths == [i \in DOMAIN entries |-> Join(directoryPath, entries[i])]
          statOk == {i \in DOMAIN fullPaths :
                        \A j \in 1..i : ~Fails("stat", fullPaths[j])}
          visited == SelectSeq(SubSeq(fullPaths, 1, Cardinality(statOk)),
                               LAMBDA p : p \in dirs)
      IN  <<[path |-> directoryPath, depth |-> currentDepth, listed |-> TRUE]>> \o
          (IF recursive /\ currentDepth < maxDepth
           THEN Flatten([i \in DOMAIN visited |->
                           scanDirectoryCalls(visited[i], recursive, maxDepth,
                                              currentDepth + 1)])
           ELSE <<>>)

\* discoverManifestFiles(directoryPath, { recursive }) without a types filter and
\* without validation: the files of the scan result and, when recursive, those of
\* each entry of its subdirectories list.
discoverManifestFiles(directoryPath, recursive) ==
    LET scanResult == scanDirectory(directoryPath, recursive, MANIFEST_EXTENSIONS,
                                    DefaultMaxDepth, 0)
    IN  IF ~scanResult.success THEN scanResult
        ELSE LET allFiles ==
                     scanResult.files \o
                         (IF recursive
                          THEN Flatten([i \in DOMAIN scanResult.subdirectories |->
                                           scanResult.subdirectories[i].files])
                          ELSE <<>>)
             IN  [files |-> allFiles, filteredByType |-> FALSE,
                  totalFound |-> Len(allFiles), success |-> TRUE]

\* MANIFEST_TYPE_PATTERNS (part_004:20-30), in the order Object.entries gives.
MANIFEST_TYPE_PATTERNS ==
    << [type |-> "project", keyword |-> Str_project],
       [type |-> "strategy", keyword |-> Str_strategy],
       [type |-> "plan", keyword |-> Str_plan],
       [type |-> "charter", keyword |-> Str_charter],
       [type |-> "session", keyword |-> Str_session],
       [type |-> "report", keyword |-> Str_report],
       [type |-> "suite", keyword |-> Str_suite],
       [type |-> "case", keyword |-> Str_case],
       [type |-> "status", keyword |-> Str_status] >>
ManifestTypes == {MANIFEST_TYPE_PATTERNS[i].type : i \in DOMAIN MANIFEST_TYPE_PATTERNS}

\* /keyword/i.test(name)
PatternTest(keyword, name) == Includes(ToLowerCase(name), keyword)

\* The type of the first pattern from entry i on that matches name.
RECURSIVE FirstPattern(_, _)
FirstPattern(name, i) ==
    IF i > Len(MANIFEST_TYPE_PATTERNS) THEN "none"
    ELSE IF PatternTest(MANIFEST_TYPE_PATTERNS[i].keyword, name)
         THEN MANIFEST_TYPE_PATTERNS[i].type
         ELSE FirstPattern(name, i + 1)

\* groupManifestFiles, given the files its discovery found: each file goes
\* to the group of the first pattern its name without extension matches, and
\* to none when no pattern matches.
GroupOf(filePath) == FirstPattern(BasenameWithout(filePath, Extname(filePath)), 1)
groupManifestFiles(discovered) ==
    LET types == {GroupOf(discovered[i]) : i \in DOMAIN discovered} \ {"none"}
    IN  [groups |-> [type \in types |->
                        SelectSeq(discovered, LAMBDA filePath : GroupOf(filePath) = type)],
         totalGroups |-> Cardinality(types),
         success |-> TRUE]

\* The types filter of discoverManifestFiles: a file passes when the pattern
\* of some listed type matches its name without extension.
MatchesType(filePath, types) ==
    \E i \in DOMAIN MANIFEST_TYPE_PATTERNS :
        /\ MANIFEST_TYPE_PATTERNS[i].type \in types
        /\ PatternTest(MANIFEST_TYPE_PATTERNS[i].keyword,
                       BasenameWithout(filePath, Extname(filePath)))

\* The type getManifestFileInfo reports: the first pattern the base name,
\* extension included, matches.
ManifestFileInfoType(filePath) ==
    IF FirstPattern(Basename(filePath), 1) = "none" THEN "unknown"
    ELSE FirstPattern(Basename(filePath), 1)

\* One file name goes through the File System Service's three classifiers
\* and through the Manifest Service's inference.
ClassifyFile ==
    /\ helper.op = "classify"
    /\ ~helper.done
    /\ helper' = [helper EXCEPT
           !.done = TRUE,
           !.grouped = groupManifestFiles(helper.discovered),
           !.passes = [i \in DOMAIN helper.discovered |->
                          {type \in ManifestTypes : MatchesType(helper.discovered[i], {type})}],
           !.info = [i \in DOMAIN helper.discovered |->
                        ManifestFileInfoType(helper.discovered[i])],
           !.inferred = [i \in DOMAIN helper.discovered |->
                            InferSchemaType(helper.discovered[i])]]
    /\ UNCHANGED notHelper

\* The environment: a directory or a file is created, a directory made unreadable.
Mkdir(parent, name) ==
    /\ ~discovery.called /\ ~scan.called
    /\ Cardinality(dirs) + Cardinality(files) <= MaxEntries
    /\ parent \in dirs
    /\ Join(parent, name) \notin dirs
    /\ dirs' = dirs \cup {Join(parent, name)}
    /\ UNCHANGED <<files, unreadable, fsError, discoveryVars, notDiscovery>>

CreateFile(parent, name) ==
    /\ ~discovery.called /\ ~scan.called
    /\ Cardinality(dirs) + Cardinality(files) <= MaxEntries
    /\ parent \in dirs
    /\ Join(parent, name) \notin files
    /\ files' = files \cup {Join(parent, name)}
    /\ UNCHANGED <<dirs, unreadable, fsError, discoveryVars, notDiscovery>>

Chmod(directoryPath) ==
    /\ ~discovery.called /\ ~scan.called
    /\ directoryPath \in dirs \ unreadable
    /\ unreadable' = unreadable \cup {directoryPath}
    /\ UNCHANGED <<dirs, files, fsError, discoveryVars, notDiscovery>>

\* The environment: from now on fs.readdir or fs.stat of one path rejects.
FsFault(op, path, error) ==
    /\ ~discovery.called /\ ~scan.called
    /\ fsError = NoFsError
    /\ op = "readdir" => path \in dirs
    /\ fsError' = [op |-> op, path |-> path, error |-> error]
    /\ UNCHANGED <<dirs, files, unreadable, discoveryVars, notDiscovery>>

\* A call of scanDirectory(directoryPath, { recursive, maxDepth }), maxDepth
\* being optional.
Scan(directoryPath, recursive, maxDepthOption) ==
    /\ ~scan.called
    /\ scan' = [called |-> TRUE, directoryPath |-> directoryPath,
                recursive |-> recursive,
                maxDepth |-> OrDefault(maxDepthOption, DefaultMaxDepth),
                result |-> scanDirectory(directoryPath, recursive, MANIFEST_EXTENSIONS,
                                         OrDefault(maxDepthOption, DefaultMaxDepth), 0),
                calls |-> scanDirectoryCalls(directoryPath, recursive,
                                             OrDefault(maxDepthOption, DefaultMaxDepth), 0)]
    /\ UNCHANGED <<fsVars, discovery, notDiscovery>>

\* A call of discoverManifestFiles on a directory that exists or not.
Discover(directoryPath, recursive) ==
    /\ ~discovery.called
    /\ discovery' = [called |-> TRUE, directoryPath |-> directoryPath,
                     recursive |-> recursive,
                     result |-> discoverManifestFiles(directoryPath, recursive)]
    /\ UNCHANGED <<fsVars, scan, notDiscovery>>

(***************************************************************************)
(* Manifest data: the values JSON.parse and yaml.load produce.             *)
(***************************************************************************)
JNull == [t |-> "null"]
JUndefined == [t |-> "undefined"]
JNaN == [t |-> "NaN"]
JNum(n) == [t |-> "number", v |-> n]
\* A string: the list of its characters.
JStr(x) == [t |-> "string", s |-> x]
JArr(items) == [t |-> "array", items |-> items]
\* An object: its own properties, as a function from key to value.
JObj(fields) == [t |-> "object", fields |-> fields]
NoFields == [k \in {} |-> JNull]

\* Boolean(v), typeof v === 'object', Array.isArray(v)
Truthy(v) ==
    CASE v.t \in {"null", "undefined", "NaN"} -> FALSE
      [] v.t = "number" -> v.v # 0
      [] v.t = "string" -> v.s # <<>>
      [] OTHER -> TRUE
TypeofObject(v) == v.t \in {"null", "array", "object"}
IsArray(v) == v.t = "array"

\* The key of an array element: "0" for the first.
IndexKey(i) == CASE i = 1 -> "0" [] i = 2 -> "1" [] i = 3 -> "2" [] OTHER -> "3"
\* The own enumerable properties { ...v } and Object.entries(v) go through:
\* those of an object, the elements of an array by index, none of a scalar.
OwnProperties(v) ==
    CASE v.t = "object" -> v.fields
      [] v.t = "array" ->
            [k \in {IndexKey(i) : i \in DOMAIN v.items} |->
                v.items[CHOOSE i \in DOMAIN v.items : IndexKey(i) = k]]
      [] OTHER -> NoFields

\* What a helper call comes to: a return value or a thrown error.
Returns(value) == [threw |-> FALSE, value |-> value]
Throws(error) == [threw |-> TRUE, error |-> error]

(***************************************************************************)
(* The generic file helpers (part_006).                                    *)
(***************************************************************************)
\* mergeManifestData(baseData, additionalData); Object.entries(null) throws.
RECURSIVE mergeManifestData(_, _)
mergeManifestData(baseData, additionalData) ==
    IF additionalData.t = "null" THEN Throws("TypeError")
    ELSE
      LET base == OwnProperties(baseData)
          extra == OwnProperties(additionalData)
          Recurses(k) == /\ k \in DOMAIN base
                         /\ Truthy(base[k])
                         /\ TypeofObject(base[k])
                         /\ TypeofObject(extra[k])
                         /\ ~IsArray(extra[k])
          merged == [k \in {x \in DOMAIN extra : Recurses(x)} |->
                        mergeManifestData(base[k], extra[k])]
      IN  IF \E k \in DOMAIN merged : merged[k].threw THEN Throws("TypeError")
          ELSE Returns(JObj([k \in DOMAIN base \cup DOMAIN extra |->
                               IF k \in DOMAIN merged THEN merged[k].value
                               ELSE IF k \in DOMAIN extra THEN extra[k]
                               ELSE base[k]]))

\* The manifest data merged: nested objects two levels deep, arrays, scalars
\* (0 among them) and null under the key a, an id that either side may hold.
ObjectsOver(keys, values) ==
    {JObj(fields) : fields \in UNION {[ks -> values] : ks \in SUBSET keys}}
InnerValues == {JNum(1), JNum(2), JObj([z |-> JNum(3)])}
MergeValues == {JNum(0), JNum(1), JNull, JArr(<<JNum(1), JNum(2)>>), JArr(<<JNum(3)>>)}
                   \cup ObjectsOver({"x", "y"}, InnerValues)
MergeObjects ==
    {JObj(fields) : fields \in
        UNION {{f \in [ks -> MergeValues \cup {JNum(7)}] :
                   \A k \in ks : (k = "id") <=> (f[k] = JNum(7))} :
               ks \in SUBSET {"a", "id"}}}

MergeManifestData ==
    /\ helper.op = "mergeManifestData"
    /\ ~helper.done
    /\ helper' = [op |-> "mergeManifestData", done |-> TRUE,
                  baseData |-> helper.baseData,
                  additionalData |-> helper.additionalData,
                  outcome |-> mergeManifestData(helper.baseData, helper.additionalData)]
    /\ UNCHANGED notHelper

(***************************************************************************)
(* The error layer's data helpers (part_005:365-446, 811-816).             *)
(***************************************************************************)
Str_scriptOpen == <<"<", "s", "c", "r", "i", "p", "t">>
Str_scriptClose == <<"<", "/", "s", "c", "r", "i", "p", "t", ">">>
WordChars == {"a", "b", "c", "i", "p", "r", "s", "t", "x", "y", "z", "S"}
\* The first index from which k occurs in s at or after from, 0 if none.
IndexOfFrom(s, k, from) ==
    LET at == {i \in from..(Len(s) - Len(k) + 1) : SubSeq(s, i, i + Len(k) - 1) = k}
    IN  IF at = {} THEN 0 ELSE CHOOSE i \in at : \A j \in at : i <= j
\* The first script element of s: where "<script", followed by a word boundary,
\* opens and where the first "</script>" after it ends; none is <<0, 0>>.
FirstScript(s) ==
    LET low == ToLowerCase(s)
        opens == {i \in 1..Len(s) :
                     /\ IndexOfFrom(low, Str_scriptOpen, i) = i
                     /\ i + 7 <= Len(s)
                     /\ low[i + 7] \notin WordChars
                     /\ IndexOfFrom(low, Str_scriptClose, i + 7) # 0}
    IN  IF opens = {} THEN <<0, 0>>
        ELSE LET i == CHOOSE x \in opens : \A y \in opens : x <= y
             IN  <<i, IndexOfFrom(low, Str_scriptClose, i + 7) + 8>>
\* replace(/<script\b[^<]*(?:(?!<\/script>)<[^<]*)*<\/script>/gi, '')
RECURSIVE RemoveScripts(_)
RemoveScripts(s) ==
    LET found == FirstScript(s)
    IN  IF found[1] = 0 THEN s
        ELSE SubSeq(s, 1, found[1] - 1) \o RemoveScripts(SubSeq(s, found[2] + 1, Len(s)))
\* replace(/<[^>]*>/g, '')
RECURSIVE RemoveTags(_)
RemoveTags(s) ==
    LET open == IndexOfFrom(s, <<"<">>, 1)
        close == IF open = 0 THEN 0 ELSE IndexOfFrom(s, <<">">>, open + 1)
    IN  IF close = 0 THEN s
        ELSE SubSeq(s, 1, open - 1) \o RemoveTags(SubSeq(s, close + 1, Len(s)))
\* The characters \\s matches and trim strips.
WhiteSpace == {" ", "\n", "\t"}
\* String.prototype.trim
RECURSIVE Trim(_)
Trim(s) ==
    IF s # <<>> /\ Head(s) \in WhiteSpace THEN Trim(Tail(s))
    ELSE IF s # <<>> /\ s[Len(s)] \in WhiteSpace THEN Trim(SubSeq(s, 1, Len(s) - 1))
    ELSE s
sanitizeString(str) == Trim(RemoveTags(RemoveScripts(str)))

\* An object whose key order matters: the list of its entries, keys distinct.
Keys(entries) == [i \in DOMAIN entries |-> entries[i].key]
\* A schema: schema.properties is an object, given by its keys, or is absent.
NoProperties == [hasProperties |-> FALSE, properties |-> {}]
Properties(keys) == [hasProperties |-> TRUE, properties |-> keys]

sanitizeManifestDataKeepsAll(data, schema) ==
    LET sanitized ==
            [i \in DOMAIN data |->
                [key |-> data[i].key,
                 value |-> IF data[i].value.t = "string"
                           THEN JStr(sanitizeString(data[i].value.s))
                           ELSE data[i].value]]
        removedFields ==
            Keys(SelectSeq(data, LAMBDA e : e.key \notin schema.properties))
    IN  [sanitized |-> sanitized, removedFields |-> removedFields,
         sanitizedCount |-> Len(sanitized), removedCount |-> Len(removedFields)]

\* sanitizeManifestData(data, schema)
sanitizeManifestData(data, schema) ==
    LET allowedProperties == IF schema.hasProperties THEN schema.properties ELSE {}
        kept == SelectSeq(data, LAMBDA e : e.key \in allowedProperties)
        sanitized ==
            [i \in DOMAIN kept |->
                [key |-> kept[i].key,
                 value |-> IF kept[i].value.t = "string"
                           THEN JStr(sanitizeString(kept[i].value.s))
                           ELSE kept[i].value]]
        removedFields ==
            Keys(SelectSeq(data, LAMBDA e : e.key \notin allowedProperties))
    IN  [sanitized |-> sanitized, removedFields |-> removedFields,
         sanitizedCount |-> Len(sanitized), removedCount |-> Len(removedFields)]

\* The data sanitized: up to MaxDataKeys entries under distinct keys, their
\* values plain strings, strings with markup or padding, a number or null.
Str_x == <<"x">>
Str_y == <<"y">>
Str_z == <<"z">>
Str_padded == <<" ", "y", " ">>
Str_bold == <<"<", "b", ">", "y", "<", "/", "b", ">">>
Str_scripted == <<"y">> \o <<"<", "S", "c", "r", "i", "p", "t", ">", "z">> \o Str_scriptClose
DataKeys == {"id", "name", "extra", "other"}
DataValues == {JStr(Str_x), JStr(Str_y), JStr(Str_z), JStr(Str_padded), JStr(Str_bold),
               JStr(Str_scripted), JNum(1)}
DataEntries ==
    {entries \in UNION {[1..n -> [key : DataKeys, value : DataValues]] : n \in 0..MaxDataKeys} :
        \A i, j \in DOMAIN entries : entries[i].key = entries[j].key => i = j}
DataSchemas == {NoProperties, Properties({}), Properties({"id", "name"}),
                Properties({"id", "name", "extra", "version"})}

SanitizeManifestData ==
    /\ helper.op = "sanitizeManifestData"
    /\ ~helper.done
    /\ helper' = [op |-> "sanitizeManifestData", done |-> TRUE,
                  data |-> helper.data, schema |-> helper.schema,
                  outcome |-> sanitizeManifestData(helper.data, helper.schema)]
    /\ UNCHANGED notHelper

\* JSON.parse(text) succeeds: text is one JSON value between white space.
\* Each Parse operator takes the index a construct starts at and gives the
\* index after it, 0 when the text is not JSON there.
Digits == {"1", "2", "3"}
At(text, i) == IF i \in 1..Len(text) THEN text[i] ELSE "EOF"
RECURSIVE SkipWs(_, _)
SkipWs(text, i) == IF At(text, i) \in WhiteSpace THEN SkipWs(text, i + 1) ELSE i
RECURSIVE SkipDigits(_, _)
SkipDigits(text, i) == IF At(text, i) \in Digits THEN SkipDigits(text, i + 1) ELSE i
ParseString(text, i) ==
    LET close == IndexOfFrom(text, <<"\"">>, i + 1)
    IN  IF close = 0 \/ \E k \in (i + 1)..(close - 1) : text[k] \in WhiteSpace \ {" "}
        THEN 0 ELSE close + 1
RECURSIVE ParseValue(_, _)
RECURSIVE ParseMembers(_, _)
RECURSIVE ParseElements(_, _)
ParseValue(text, i) ==
    CASE At(text, i) = "{" ->
            IF At(text, SkipWs(text, i + 1)) = "}" THEN SkipWs(text, i + 1) + 1
            ELSE ParseMembers(text, SkipWs(text, i + 1))
      [] At(text, i) = "[" ->
            IF At(text, SkipWs(text, i + 1)) = "]" THEN SkipWs(text, i + 1) + 1
            ELSE ParseElements(text, SkipWs(text, i + 1))
      [] At(text, i) = "\"" -> ParseString(text, i)
      [] At(text, i) \in Digits -> SkipDigits(text, i)
      [] OTHER -> 0
ParseMembers(text, i) ==
    LET afterKey == IF At(text, i) = "\"" THEN ParseString(text, i) ELSE 0
        colon == SkipWs(text, afterKey)
        afterValue == IF afterKey = 0 \/ At(text, colon) # ":" THEN 0
                      ELSE ParseValue(text, SkipWs(text, colon + 1))
        next == SkipWs(text, afterValue)
    IN  IF afterValue = 0 THEN 0
        ELSE IF At(text, next) = "," THEN ParseMembers(text, SkipWs(text, next + 1))
        ELSE IF At(text, next) = "}" THEN next + 1
        ELSE 0
ParseElements(text, i) ==
    LET afterValue == ParseValue(text, i)
        next == SkipWs(text, afterValue)
    IN  IF afterValue = 0 THEN 0
        ELSE IF At(text, next) = "," THEN ParseElements(text, SkipWs(text, next + 1))
        ELSE IF At(text, next) = "]" THEN next + 1
        ELSE 0
JsonParses(text) ==
    LET after == ParseValue(text, SkipWs(text, 1))
    IN  after # 0 /\ SkipWs(text, after) = Len(text) + 1

\* replace(/,(\s*[}\]])/g, '$1'): the commas before a closing bracket go.
RemoveTrailingCommas(text) ==
    LET Trailing(i) == text[i] = "," /\ At(text, SkipWs(text, i + 1)) \in {"}", "]"}
        kept == {i \in DOMAIN text : ~Trailing(i)}
        RECURSIVE Pick(_)
        Pick(i) == IF i > Len(text) THEN <<>>
                   ELSE (IF i \in kept THEN <<text[i]>> ELSE <<>>) \o Pick(i + 1)
    IN  Pick(1)

\* fs.readFile(filePath, 'utf8'): the content, or the error it rejects with.
ReadResolves(content) == [rejected |-> FALSE, content |-> content]
ReadRejects == [rejected |-> TRUE, content |-> <<>>]

\* recoverFromCorruptedFile(filePath), given what reading the file comes to.
recoverFromCorruptedFile(filePath, read) ==
    IF read.rejected
    THEN [recovered |-> FALSE, recoveryMethod |-> "failed"]
    ELSE IF EndsWith(filePath, Str_json)
    THEN LET content == read.content
             closed == EndsWith(Trim(content), <<"}">>) \/ EndsWith(Trim(content), <<"]">>)
             fixedContent ==
                 RemoveTrailingCommas(IF closed THEN content ELSE Trim(content) \o <<"}">>)
             recoveryMethod == IF closed THEN "none" ELSE "auto_fix"
         IN  IF JsonParses(fixedContent)
             THEN [recovered |-> TRUE, recoveryMethod |-> recoveryMethod,
                   fixedContent |-> fixedContent, originalContent |-> content]
             ELSE [recovered |-> FALSE, recoveryMethod |-> "failed"]
    ELSE [recovered |-> FALSE, recoveryMethod |-> "not_supported"]

\* The files recovered: JSON texts, some with a comma before a closing
\* bracket, and every text cut short of one of them.
Quoted(name) == <<"\"">> \o name \o <<"\"">>
Text_example ==
    Flatten(<<<<"{">>, Quoted(<<"i", "d">>), <<":">>, Quoted(Str_x), <<",">>,
              Quoted(<<"n", "a", "m", "e">>), <<":">>, Quoted(Str_y), <<",">>,
              Quoted(Str_z), <<":", "1", "}">>>>)
Text_nested ==
    Flatten(<<<<"{">>, Quoted(Str_x), <<":", "[", "1", ",", " ", "{">>, Quoted(Str_y),
              <<":", "2", "}", ",", "]", ",", "\n", "}", "\n">>>>)
Text_array == <<"[", "1", ",", "2", "]">>
Text_number == <<"1", "2">>
FullTexts == {Text_example, Text_nested, Text_array, Text_number}
CorruptedTexts ==
    UNION {{SubSeq(text, 1, n) : n \in 0..Len(text)} : text \in FullTexts}
RecoverPaths == {Path_project1, Path_strategy1, Path_readmeTxt,
                 Flatten(<<Str_testDir, Str_project, Str_JSON>>)}

RecoverFromCorruptedFile ==
    /\ helper.op = "recoverFromCorruptedFile"
    /\ ~helper.done
    /\ helper' = [op |-> "recoverFromCorruptedFile", done |-> TRUE,
                  filePath |-> helper.filePath, read |-> helper.read,
                  outcome |-> recoverFromCorruptedFile(helper.filePath, helper.read)]
    /\ UNCHANGED notHelper

(***************************************************************************)
(* The entity models (BaseModel.js, Project.js, part_000).  Objects and    *)
(* arrays live in a heap and are held by reference, so that two holders of  *)
(* one object see each other's changes; a cell is never freed.             *)
(***************************************************************************)
JRef(id) == [t |-> "ref", ref |-> id]
ObjectCell(fields) == [kind |-> "object", fields |-> fields]
ArrayCell(items) == [kind |-> "array", items |-> items]
\* A new cell: the heap with it and its reference.
Alloc(heap, cell) == Append(heap, cell)
NewRef(heap) == JRef(Len(heap) + 1)

\* obj[key] = value, delete obj[key], { ...obj }, Object.assign(target, updates)
PutField(heap, ref, key, value) ==
    [heap EXCEPT ![ref.ref].fields = MapSet(@, key, value)]
DeleteField(heap, ref, key) ==
    [heap EXCEPT ![ref.ref].fields = MapDelete(@, key)]
Spread(heap, ref) == ObjectCell(heap[ref.ref].fields)
Assign(heap, ref, updates) ==
    [heap EXCEPT ![ref.ref].fields =
        [k \in DOMAIN @ \cup DOMAIN updates |->
            IF k \in DOMAIN updates THEN updates[k] ELSE @[k]]]

\* The compiled validator of the bound schema, run on a data object: the
\* errors Ajv leaves in validator.errors, null (here <<>> and the flag) when
\* the data is valid.  The schema requires id and name and wants name to be
\* a string.
RequiredKeys == <<"id", "name">>
SchemaErrors(fields) ==
    [i \in DOMAIN SelectSeq(RequiredKeys, LAMBDA k : k \notin DOMAIN fields) |->
        [keyword |-> "required",
         key |-> SelectSeq(RequiredKeys, LAMBDA k : k \notin DOMAIN fields)[i]]]
        \o (IF "name" \in DOMAIN fields /\ fields["name"].t # "string"
            THEN <<[keyword |-> "type", key |-> "name"]>> ELSE <<>>)
Validator(fields) ==
    [valid |-> SchemaErrors(fields) = <<>>,
     errors |-> IF SchemaErrors(fields) = <<>>
                THEN [null |-> TRUE, list |-> <<>>]
                ELSE [null |-> FALSE, list |-> SchemaErrors(fields)]]
\* x || []
OrEmptyList(x) == IF x.null THEN <<>> ELSE x.list

\* The model's own data object.
Data == model.heap[model.data.ref].fields
\* The objects code outside the model holds: the record given to the
\* constructor and the objects toJSON returned.
HeldOutside == {model.source} \cup Range(model.handedOut)
CanOperate == model.constructed /\ model.ops < MaxModelOps
Operated(op) == [model EXCEPT !.ops = @ + 1, !.lastOp = op]

\* new BaseModel(data, schemaName): the model keeps a copy of data's top level.
Construct(fields, schemaName) ==
    /\ ~model.constructed
    /\ model' = [constructed |-> TRUE,
                 heap |-> <<ObjectCell(fields), ObjectCell(fields)>>,
                 source |-> JRef(1),
                 data |-> JRef(2),
                 hasValidator |-> schemaName # "null",
                 validationErrors |-> <<>>,
                 isValidCalls |-> <<>>,
                 handedOut |-> <<>>,
                 ops |-> 0,
                 lastOp |-> "constructor"]
    /\ UNCHANGED notModel

\* set(key, value)
Set(key, value) ==
    /\ CanOperate
    /\ model' = [Operated("set") EXCEPT !.heap = PutField(@, model.data, key, value)]
    /\ UNCHANGED notModel

\* update(updates)
Update(updates) ==
    /\ CanOperate
    /\ model' = [Operated("update") EXCEPT !.heap = Assign(@, model.data, updates)]
    /\ UNCHANGED notModel

IsValidKeepsErrorsOnSuccess ==
    /\ CanOperate
    /\ LET outcome == Validator(Data)
           result == IF model.hasValidator THEN outcome.valid ELSE TRUE
       IN  model' = [Operated("isValid") EXCEPT
               !.validationErrors =
                   IF model.hasValidator /\ ~outcome.valid
                   THEN OrEmptyList(outcome.errors) ELSE @,
               !.isValidCalls = Append(@, [data |-> Data, result |-> result])]
    /\ UNCHANGED notModel

\* isValid(): without a validator true at once; otherwise the validator runs
\* on the data and its errors replace the stored list.
IsValid ==
    /\ CanOperate
    /\ LET outcome == Validator(Data)
           result == IF model.hasValidator THEN outcome.valid ELSE TRUE
       IN  model' = [Operated("isValid") EXCEPT
               !.validationErrors =
                   IF model.hasValidator THEN OrEmptyList(outcome.errors) ELSE @,
               !.isValidCalls = Append(@, [data |-> Data, result |-> result])]
    /\ UNCHANGED notModel

\* getValidationErrors()
getValidationErrors == model.validationErrors

ToJSONReturnsData ==
    /\ CanOperate
    /\ Len(model.handedOut) < MaxHandedOut
    /\ model' = [Operated("toJSON") EXCEPT !.handedOut = Append(@, model.data)]
    /\ UNCHANGED notModel

\* toJSON(): a new object with the data's top level.
ToJSON ==
    /\ CanOperate
    /\ Len(model.handedOut) < MaxHandedOut
    /\ model' = [Operated("toJSON") EXCEPT
                    !.heap = Alloc(@, Spread(model.heap, model.data)),
                    !.handedOut = Append(@, NewRef(model.heap))]
    /\ UNCHANGED notModel

\* Code outside the model adds, replaces or deletes a top-level key of an
\* object it holds.
OutsidePut(ref, key, value) ==
    /\ CanOperate
    /\ ref \in HeldOutside
    /\ model' = [Operated("outside") EXCEPT !.heap = PutField(@, ref, key, value)]
    /\ UNCHANGED notModel

OutsideDelete(ref, key) ==
    /\ CanOperate
    /\ ref \in HeldOutside
    /\ key \in DOMAIN model.heap[ref.ref].fields
    /\ model' = [Operated("outside") EXCEPT !.heap = DeleteField(@, ref, key)]
    /\ UNCHANGED notModel

\* The records models are built from and updated with.
ModelKeys == {"id", "name"}
ModelValues == {JStr("x"), JNum(1)}
ModelRecords == UNION {[ks -> ModelValues] : ks \in SUBSET ModelKeys}
SchemaNameOptions == {"null", "project"}

(***************************************************************************)
(* The list properties of TestStrategy (part_000), Project (Project.js)    *)
(* and TestCharter (BaseModel.js): one array per key, changed in place.    *)
(***************************************************************************)
ArrayIncludes(items, value) == \E i \in DOMAIN items : items[i] = value
\* indexOf: the first position of value, 0 for JavaScript's -1
ArrayIndexOf(items, value) ==
    IF ArrayIncludes(items, value)
    THEN CHOOSE i \in DOMAIN items :
             items[i] = value /\ \A j \in 1..(i - 1) : items[j] # value
    ELSE 0
\* items.splice(index, 1)
Splice(items, index) ==
    [i \in 1..(Len(items) - 1) |-> IF i < index THEN items[i] ELSE items[i + 1]]

\* getObjectives, getRisks, getDependencies, getTags, getDocumentReferences:
\* this.get(key) || []
getList(key) == IF key \in DOMAIN Data THEN model.heap[Data[key].ref].items ELSE <<>>

addToListAlways(key, value) ==
    IF key \in DOMAIN Data
    THEN [model.heap EXCEPT ![Data[key].ref].items = Append(@, value)]
    ELSE PutField(Alloc(model.heap, ArrayCell(<<value>>)),
                  model.data, key, NewRef(model.heap))

\* The heap after add<X>(value): nothing when the list includes the value;
\* otherwise the value is pushed onto the stored array, or onto a new array
\* that set() then stores when the key held none.
addToList(key, value) ==
    IF ArrayIncludes(getList(key), value)
    THEN model.heap
    ELSE IF key \in DOMAIN Data
         THEN [model.heap EXCEPT ![Data[key].ref].items = Append(@, value)]
         ELSE PutField(Alloc(model.heap, ArrayCell(<<value>>)),
                       model.data, key, NewRef(model.heap))

\* The heap after remove<X>(value): the first occurrence is spliced out of
\* the stored array.
removeFromList(key, value) ==
    IF ArrayIndexOf(getList(key), value) > 0
    THEN [model.heap EXCEPT ![Data[key].ref].items =
             Splice(@, ArrayIndexOf(getList(key), value))]
    ELSE model.heap

ClassNames == {"TestStrategy", "Project", "TestCharter"}
ListKeysOf(className) ==
    CASE className = "TestStrategy" -> {"objectives", "risks", "dependencies"}
      [] className = "Project" -> {"tags"}
      [] className = "TestCharter" -> {"documentReferences"}
ListValues == {JStr("a"), JStr("b"), JStr("c")}
\* The lists a model starts with: none has a value twice.
InitialLists ==
    {<<>>, <<JStr("a")>>, <<JStr("b"), JStr("a")>>,
     <<JStr("a"), JStr("b"), JStr("c")>>}
InitialListsOf(className) ==
    UNION {[ks -> InitialLists] : ks \in SUBSET ListKeysOf(className)}

\* The arrays of a record, one heap cell each, after the two objects.
KeyOrder == <<"objectives", "risks", "dependencies", "tags", "documentReferences">>
KeysIn(lists) == SelectSeq(KeyOrder, LAMBDA k : k \in DOMAIN lists)
RefsOf(lists) ==
    [k \in DOMAIN lists |->
        JRef(2 + CHOOSE i \in DOMAIN KeysIn(lists) : KeysIn(lists)[i] = k)]

\* new TestStrategy(data), new Project(data), new TestCharter(data): the
\* copy of data holds the same arrays as data.
ConstructWithLists(className, lists) ==
    /\ ~model.constructed
    /\ model' = [constructed |-> TRUE,
                 className |-> className,
                 heap |-> <<ObjectCell(RefsOf(lists)), ObjectCell(RefsOf(lists))>>
                          \o [i \in DOMAIN KeysIn(lists) |-> ArrayCell(lists[KeysIn(lists)[i]])],
                 source |-> JRef(1),
                 data |-> JRef(2),
                 ops |-> 0,
                 lastCall |-> [op |-> "constructor"]]
    /\ UNCHANGED notModel

CanCall(className) ==
    /\ model.constructed
    /\ model.className = className
    /\ model.ops < MaxListOps

Add(className, key, value) ==
    /\ CanCall(className)
    /\ model' = [model EXCEPT !.heap = addToList(key, value),
                              !.ops = @ + 1,
                              !.lastCall = [op |-> "add", key |-> key, value |-> value]]
    /\ UNCHANGED notModel

Remove(className, key, value) ==
    /\ CanCall(className)
    /\ model' = [model EXCEPT !.heap = removeFromList(key, value),
                              !.ops = @ + 1,
                              !.lastCall = [op |-> "remove", key |-> key, value |-> value]]
    /\ UNCHANGED notModel

addObjective(objective) == Add("TestStrategy", "objectives", objective)
removeObjective(objective) == Remove("TestStrategy", "objectives", objective)
addRisk(risk) == Add("TestStrategy", "risks", risk)
removeRisk(risk) == Remove("TestStrategy", "risks", risk)
addDependency(dependency) == Add("TestStrategy", "dependencies", dependency)
removeDependency(dependency) == Remove("TestStrategy", "dependencies", dependency)
addTag(tag) == Add("Project", "tags", tag)
removeTag(tag) == Remove("Project", "tags", tag)
addDocumentReference(url) == Add("TestCharter", "documentReferences", url)
removeDocumentReference(url) == Remove("TestCharter", "documentReferences", url)

(***************************************************************************)
(* clone (BaseModel.js:154-156) and the methods that change a nested       *)
(* array or object of a model: Project.addTag and setMetadataValue,        *)
(* TestReport.addFinding, TestPlan.setEstimatedHours.  The model m and its  *)
(* clone c each own a data object in the heap.                              *)
(***************************************************************************)
CloneClassNames == {"Project", "TestReport", "TestPlan"}
NestedKeysOf(className) ==
    CASE className = "Project" -> {"tags", "metadata"}
      [] className = "TestReport" -> {"findings"}
      [] className = "TestPlan" -> {"effortEstimation"}
NestedKeyOrder == <<"tags", "metadata", "findings", "effortEstimation">>
\* What a nested property holds when the model is built.
InitialCells(key) ==
    IF key \in {"tags", "findings"}
    THEN {ArrayCell(<<>>), ArrayCell(<<JStr("a")>>)}
    ELSE {ObjectCell(EmptyMap), ObjectCell([k \in {"hours"} |-> JNum(1)])}
InitialNestedOf(className) ==
    UNION {{nested \in [ks -> UNION {InitialCells(k) : k \in ks}] :
               \A k \in ks : nested[k] \in InitialCells(k)} :
           ks \in SUBSET NestedKeysOf(className)}
CloneNames == {JStr("x"), JStr("y")}
NestedValues == {JStr("a"), JStr("b")}
HoursValues == {JNum(1), JNum(2)}

\* The data object of m or of c.
DataRefOf(mod, target) == IF target = "m" THEN mod.data ELSE mod.clone
FieldsOf(mod, target) == mod.heap[DataRefOf(mod, target).ref].fields

\* new Project(data), new TestReport(data), new TestPlan(data): this.data is
\* { ...data }, which holds the same nested arrays and objects as data.
NewModel(className, name, nested) ==
    /\ ~model.constructed
    /\ LET keys == SelectSeq(NestedKeyOrder, LAMBDA k : k \in DOMAIN nested)
           fields == [k \in DOMAIN nested \cup {"name"} |->
                         IF k = "name" THEN name
                         ELSE JRef(2 + CHOOSE i \in DOMAIN keys : keys[i] = k)]
       IN  model' = [constructed |-> TRUE,
                     className |-> className,
                     heap |-> <<ObjectCell(fields), ObjectCell(fields)>>
                              \o [i \in DOMAIN keys |-> nested[keys[i]]],
                     source |-> JRef(1),
                     data |-> JRef(2),
                     cloned |-> FALSE,
                     clone |-> JNull,
                     ops |-> 0,
                     lastCall |-> [on |-> "m", op |-> "constructor"]]
    /\ UNCHANGED notModel

\* c = m.clone(): new this.constructor({ ...this.data }); the spread makes one
\* copy of the top level and the constructor another.
Clone ==
    /\ model.constructed
    /\ ~model.cloned
    /\ LET spread == Alloc(model.heap, Spread(model.heap, model.data))
       IN  model' = [model EXCEPT
                        !.heap = Alloc(spread, Spread(spread, NewRef(model.heap))),
                        !.clone = NewRef(spread),
                        !.cloned = TRUE,
                        !.lastCall = [on |-> "m", op |-> "clone"]]
    /\ UNCHANGED notModel

CanCallOn(target, classNames) ==
    /\ model.constructed
    /\ model.className \in classNames
    /\ target = "c" => model.cloned
    /\ model.ops < MaxModelOps

CalledOn(target, op, heap) ==
    [model EXCEPT !.heap = heap, !.ops = @ + 1, !.lastCall = [on |-> target, op |-> op]]

\* set(key, value) and update(updates) on m or on c.
SetOn(target, key, value) ==
    /\ CanCallOn(target, CloneClassNames)
    /\ model' = CalledOn(target, "set",
                         PutField(model.heap, DataRefOf(model, target), key, value))
    /\ UNCHANGED notModel

UpdateOn(target, updates) ==
    /\ CanCallOn(target, CloneClassNames)
    /\ model' = CalledOn(target, "update",
                         Assign(model.heap, DataRefOf(model, target), updates))
    /\ UNCHANGED notModel

\* const list = this.get(key) || []; list.push(value); this.set(key, list)
Push(target, key, value) ==
    IF key \in DOMAIN FieldsOf(model, target)
    THEN [model.heap EXCEPT ![FieldsOf(model, target)[key].ref].items = Append(@, value)]
    ELSE PutField(Alloc(model.heap, ArrayCell(<<value>>)),
                  DataRefOf(model, target), key, NewRef(model.heap))
\* this.get(key) || []
ListOn(target, key) ==
    IF key \in DOMAIN FieldsOf(model, target)
    THEN model.heap[FieldsOf(model, target)[key].ref].items
    ELSE <<>>
\* const obj = this.get(key) || {}; obj[field] = value; this.set(key, obj)
PutNested(target, key, field, value) ==
    IF key \in DOMAIN FieldsOf(model, target)
    THEN PutField(model.heap, FieldsOf(model, target)[key], field, value)
    ELSE PutField(Alloc(model.heap, ObjectCell([k \in {field} |-> value])),
                  DataRefOf(model, target), key, NewRef(model.heap))

\* Project.addTag(tag): pushes unless the tags include it.
AddTagOn(target, tag) ==
    /\ CanCallOn(target, {"Project"})
    /\ model' = CalledOn(target, "addTag",
                         IF ArrayIncludes(ListOn(target, "tags"), tag)
                         THEN model.heap
                         ELSE Push(target, "tags", tag))
    /\ UNCHANGED notModel

\* TestReport.addFinding(finding)
AddFindingOn(target, finding) ==
    /\ CanCallOn(target, {"TestReport"})
    /\ model' = CalledOn(target, "addFinding", Push(target, "findings", finding))
    /\ UNCHANGED notModel

\* Project.setMetadataValue(key, value)
SetMetadataValueOn(target, key, value) ==
    /\ CanCallOn(target, {"Project"})
    /\ model' = CalledOn(target, "setMetadataValue",
                         PutNested(target, "metadata", key, value))
    /\ UNCHANGED notModel

\* TestPlan.setEstimatedHours(hours)
SetEstimatedHoursOn(target, hours) ==
    /\ CanCallOn(target, {"TestPlan"})
    /\ model' = CalledOn(target, "setEstimatedHours",
                         PutNested(target, "effortEstimation", "hours", hours))
    /\ UNCHANGED notModel

(***************************************************************************)
(* diffManifestData (part_006:340-362).  A record is a function from its   *)
(* own keys to values; every record inherits the properties of             *)
(* Object.prototype.                                                       *)
(***************************************************************************)
ObjectPrototypeKeys ==
    {"constructor", "toString", "valueOf", "hasOwnProperty", "isPrototypeOf",
     "propertyIsEnumerable", "toLocaleString", "__proto__"}
JFunction == [t |-> "function"]
\* key in obj
In(key, obj) == key \in DOMAIN obj \/ key \in ObjectPrototypeKeys
\* obj[key]
Lookup(obj, key) ==
    IF key \in DOMAIN obj THEN obj[key]
    ELSE IF key \in ObjectPrototypeKeys THEN JFunction
    ELSE JUndefined
\* JSON.stringify(value) of a scalar: the text, undefined for undefined and
\* for a function; NaN is written null.
Stringify(value) ==
    CASE value.t \in {"undefined", "function"} -> [text |-> "undefined", of |-> <<>>]
      [] value.t \in {"null", "NaN"} -> [text |-> "null", of |-> <<>>]
      [] value.t = "number" -> [text |-> "number", of |-> <<value.v>>]
      [] value.t = "string" -> [text |-> "string", of |-> value.s]

Restrict(obj, keys) == [key \in keys |-> obj[key]]

diffManifestData(originalData, modifiedData) ==
    [added |-> Restrict(modifiedData,
                        {key \in DOMAIN modifiedData : ~In(key, originalData)}),
     modified |->
         Restrict(modifiedData,
                  {key \in DOMAIN modifiedData :
                      /\ In(key, originalData)
                      /\ Stringify(Lookup(originalData, key))
                             # Stringify(modifiedData[key])}),
     removed |-> Restrict(originalData,
                          {key \in DOMAIN originalData : ~In(key, modifiedData)})]

\* The records diffed: up to three keys, one of them a name every object
\* inherits, with the scalars JSON and YAML documents hold.
DiffKeys == {"id", "name", "constructor"}
DiffValues == {JStr(Str_x), JNum(1), JNull, JNaN}
DiffRecords == UNION {[keys -> DiffValues] : keys \in SUBSET DiffKeys}

DiffManifestData ==
    /\ helper.op = "diffManifestData"
    /\ ~helper.done
    /\ helper' = [helper EXCEPT
           !.done = TRUE,
           !.outcome = diffManifestData(helper.originalData, helper.modifiedData)]
    /\ UNCHANGED notHelper

(***************************************************************************)
(* Discovery with validation (part_004:180-199, 703-744).                  *)
(***************************************************************************)
\* What fs.readFile and the parser make of one file: the read rejects, the
\* parser throws, or it returns a value (yaml.load returns undefined for an
\* empty document).
ReadOutcomes ==
    {[rejected |-> TRUE, message |-> "ENOENT: no such file or directory",
      parsed |-> Throws("none")]}
        \cup {[rejected |-> FALSE, message |-> "", parsed |-> parsed] :
                 parsed \in {Throws("Unexpected token"), Returns(JObj(NoFields)),
                             Returns(JNull), Returns(JUndefined)}}

validateManifestFileTrusting(filePath, read) ==
    [isValid |-> TRUE, errors |-> <<>>, filePath |-> filePath]

\* validateManifestFile(filePath), the path a list of components: every
\* failure becomes a result with one error message.
validateManifestFile(filePath, read) ==
    IF read.rejected
    THEN [isValid |-> FALSE, errors |-> <<read.message>>, filePath |-> filePath]
    ELSE IF ToLowerCase(Extname(filePath[Len(filePath)])) \notin {Str_json, Str_yaml, Str_yml}
    THEN [isValid |-> FALSE, errors |-> <<"Unsupported file format">>, filePath |-> filePath]
    ELSE IF read.parsed.threw
    THEN [isValid |-> FALSE, errors |-> <<read.parsed.error>>, filePath |-> filePath]
    ELSE IF ~TypeofObject(read.parsed.value) \/ read.parsed.value = JNull
    THEN [isValid |-> FALSE, errors |-> <<"File must contain a valid object">>,
          filePath |-> filePath]
    ELSE [isValid |-> TRUE, errors |-> <<>>, filePath |-> filePath]

\* A list the result carries, or undefined.
Present(list) == [defined |-> TRUE, list |-> list]
Absent == [defined |-> FALSE]

\* discoverManifestFiles(directoryPath, { recursive, validate }): with
\* validate each file found is validated in turn and goes to validFiles or,
\* with its errors, to invalidFiles.  reads gives what reading each file
\* comes to.
discoverManifestFilesValidating(directoryPath, recursive, validate, reads) ==
    LET found == discoverManifestFiles(directoryPath, recursive)
    IN  IF ~found.success THEN found
        ELSE LET checked ==
                     [i \in DOMAIN found.files |->
                         validateManifestFile(found.files[i], reads[found.files[i]])]
                 Indices(isValid) ==
                     SelectSeq([i \in DOMAIN found.files |-> i],
                               LAMBDA i : checked[i].isValid = isValid)
             IN  [files |-> found.files,
                  validFiles |->
                      IF validate
                      THEN Present([k \in DOMAIN Indices(TRUE) |->
                                       found.files[Indices(TRUE)[k]]])
                      ELSE Absent,
                  invalidFiles |->
                      IF validate
                      THEN Present([k \in DOMAIN Indices(FALSE) |->
                                       [path |-> found.files[Indices(FALSE)[k]],
                                        errors |-> checked[Indices(FALSE)[k]].errors]])
                      ELSE Absent,
                  filteredByType |-> FALSE,
                  totalFound |-> Len(found.files),
                  success |-> TRUE]

\* A call of discoverManifestFiles with the validate option given.
DiscoverValidating(directoryPath, recursive, validate, reads) ==
    /\ ~discovery.called
    /\ discovery' = [called |-> TRUE, directoryPath |-> directoryPath,
                     recursive |-> recursive, validate |-> validate, reads |-> reads,
                     result |-> discoverManifestFilesValidating(directoryPath, recursive,
                                                                validate, reads)]
    /\ UNCHANGED <<fsVars, scan, notDiscovery>>

(***************************************************************************)
(* TestReport metrics (TestReport.js).  Numbers are exact: an integer is   *)
(* JNum, any other quotient a ratio in lowest terms, and NaN is a value.   *)
(***************************************************************************)
IsNumber(v) == v.t = "number"
Magnitude(n) == IF n < 0 THEN 0 - n ELSE n
CommonDivisors(a, b) ==
    {g \in 1..(Magnitude(a) + Magnitude(b) + 1) : a % g = 0 /\ b % g = 0}
Greatest(S) == CHOOSE g \in S : \A h \in S : h <= g
\* a / b for integers, b > 0
Ratio(a, b) ==
    IF a % b = 0
    THEN JNum(a \div b)
    ELSE [t |-> "ratio", n |-> a \div Greatest(CommonDivisors(a, b)),
                         d |-> b \div Greatest(CommonDivisors(a, b))]
\* Math.round((a / b) * 100) for integers, b > 0: halves go up
RoundPercent(a, b) == JNum((200 * a + b) \div (2 * b))

\* obj.key
Property(obj, key) ==
    IF key \in DOMAIN obj.fields THEN obj.fields[key] ELSE JUndefined

\* getTestCasesExecuted(), getDefectsFound(): metrics ? metrics.<key> : null
getTestCasesExecuted(metrics) ==
    IF Truthy(metrics) THEN Property(metrics, "testCasesExecuted") ELSE JNull
getDefectsFound(metrics) ==
    IF Truthy(metrics) THEN Property(metrics, "defectsFound") ELSE JNull
\* executed === null || executed === 0
NullOrZero(executed) == executed = JNull \/ executed = JNum(0)
\* defects || 0
DefectsOrZero(defects) == IF Truthy(defects) THEN defects ELSE JNum(0)

\* getPassRate(), for counts that are not negative: arithmetic on undefined
\* gives NaN
getPassRate(metrics) ==
    LET executed == getTestCasesExecuted(metrics)
        defects == DefectsOrZero(getDefectsFound(metrics))
    IN  IF NullOrZero(executed) THEN JNull
        ELSE IF ~IsNumber(executed) \/ ~IsNumber(defects) THEN JNaN
        ELSE RoundPercent(executed.v - defects.v, executed.v)

\* getDefectDensity()
getDefectDensity(metrics) ==
    LET executed == getTestCasesExecuted(metrics)
        defects == DefectsOrZero(getDefectsFound(metrics))
    IN  IF NullOrZero(executed) THEN JNull
        ELSE IF ~IsNumber(executed) \/ ~IsNumber(defects) THEN JNaN
        ELSE Ratio(defects.v, executed.v)

\* The metrics a report holds: none, or an object with either count, both
\* or neither.
Counts == {JNum(n) : n \in 0..MaxCount} \cup {JNum(50)}
MetricsObjects ==
    UNION {{JObj(fields) : fields \in [ks -> Counts]} :
              ks \in SUBSET {"testCasesExecuted", "defectsFound"}}
MetricsOptions == {JUndefined} \cup MetricsObjects
NotCalled == [called |-> FALSE]
Called(value) == [called |-> TRUE, value |-> value]

GetPassRate ==
    /\ helper.op = "TestReport"
    /\ ~helper.passRate.called
    /\ helper' = [helper EXCEPT !.passRate = Called(getPassRate(helper.metrics))]
    /\ UNCHANGED notHelper

GetDefectDensity ==
    /\ helper.op = "TestReport"
    /\ ~helper.defectDensity.called
    /\ helper' = [helper EXCEPT
                     !.defectDensity = Called(getDefectDensity(helper.metrics))]
    /\ UNCHANGED notHelper

(***************************************************************************)
(* TestSession duration (TestSession.js).  A time of day is a string, a    *)
(* Date the number of seconds since the midnight before the first clock    *)
(* read.                                                                   *)
(***************************************************************************)
DecimalDigits == <<"0", "1", "2", "3", "4", "5", "6", "7", "8", "9">>
IsDigit(ch) == \E i \in DOMAIN DecimalDigits : DecimalDigits[i] = ch
DigitValue(ch) == (CHOOSE i \in DOMAIN DecimalDigits : DecimalDigits[i] = ch) - 1

\* timeStr.split(':')
RECURSIVE Split(_, _)
Split(s, sep) ==
    IF \E i \in DOMAIN s : s[i] = sep
    THEN LET i == CHOOSE i \in DOMAIN s : s[i] = sep /\ \A j \in 1..(i - 1) : s[j] # sep
         IN  <<SubSeq(s, 1, i - 1)>> \o Split(SubSeq(s, i + 1, Len(s)), sep)
    ELSE <<s>>

\* The value of the digits of s from position i on, after the value so far.
RECURSIVE DigitsValue(_, _, _)
DigitsValue(s, i, sofar) ==
    IF i <= Len(s) /\ IsDigit(s[i])
    THEN DigitsValue(s, i + 1, 10 * sofar + DigitValue(s[i]))
    ELSE sofar

\* parseInt(s, 10): white space is skipped, a sign is read, then the digits
\* up to the first character that is none; NaN when there is no digit.
parseInt(s) ==
    LET i == SkipWs(s, 1)
        negative == At(s, i) = "-"
        j == IF At(s, i) \in {"+", "-"} THEN i + 1 ELSE i
    IN  IF j <= Len(s) /\ IsDigit(s[j])
        THEN JNum(IF negative THEN 0 - DigitsValue(s, j, 0) ELSE DigitsValue(s, j, 0))
        ELSE JNaN

\* _parseTime(timeStr): today at hours:minutes:seconds, null when the string
\* has not three parts or a part parses to NaN.  today is the day new Date()
\* falls on.
parseTime(timeStr, today) ==
    IF ~Truthy(timeStr) \/ timeStr.t # "string" THEN JNull
    ELSE LET parts == Split(timeStr.s, ":")
         IN  IF Len(parts) # 3 THEN JNull
             ELSE IF \E i \in 1..3 : parseInt(parts[i]) = JNaN THEN JNull
                  ELSE [t |-> "date",
                        seconds |-> 86400 * today + 3600 * parseInt(parts[1]).v
                                    + 60 * parseInt(parts[2]).v + parseInt(parts[3]).v]

\* Math.round(diffMs / (1000 * 60)): halves go up
RoundMinutes(diffSeconds) == JNum((2 * diffSeconds + 60) \div 120)

\* data[key]
Field(data, key) == IF key \in DOMAIN data THEN data[key] ELSE JUndefined

\* calculateDurationFromTimes(): the start is parsed on the day of the first
\* clock read, the end on the day of the second.
calculateDurationFromTimes(data, days) ==
    LET startTime == Field(data, "startTime")
        endTime == Field(data, "endTime")
    IN  IF ~Truthy(startTime) \/ ~Truthy(endTime) THEN JNull
        ELSE LET start == parseTime(startTime, days[1])
                 end == parseTime(endTime, days[2])
             IN  IF start = JNull \/ end = JNull THEN JNull
                 ELSE RoundMinutes(end.seconds - start.seconds)

\* The data after autoCalculateDuration()
autoCalculateDuration(data, days) ==
    IF calculateDurationFromTimes(data, days) # JNull
    THEN MapSet(data, "duration", calculateDurationFromTimes(data, days))
    ELSE data

Chars_10_00_00 == <<"1", "0", ":", "0", "0", ":", "0", "0">>
Chars_11_30_00 == <<"1", "1", ":", "3", "0", ":", "0", "0">>
Chars_11_30_30 == <<"1", "1", ":", "3", "0", ":", "3", "0">>
Chars_09_15_29 == <<"0", "9", ":", "1", "5", ":", "2", "9">>
Chars_10_00 == <<"1", "0", ":", "0", "0">>
Chars_10_00_00_00 == <<"1", "0", ":", "0", "0", ":", "0", "0", ":", "0", "0">>
Chars_ab_00_00 == <<"a", "b", ":", "0", "0", ":", "0", "0">>
Chars_10_00_ == <<"1", "0", ":", "0", "0", ":">>
Chars_11x_30_00 == <<"1", "1", "x", ":", "3", "0", ":", "0", "0">>
Chars_11_30pm_00 == <<"1", "1", ":", "3", "0", "p", "m", ":", "0", "0">>
TimeValues ==
    {JStr(chars) : chars \in {Chars_10_00_00, Chars_11_30_00, Chars_11_30_30,
                              Chars_09_15_29, Chars_10_00, Chars_10_00_00_00,
                              Chars_ab_00_00, Chars_10_00_, Chars_11x_30_00,
                              Chars_11_30pm_00, <<>>}}
        \cup {JNull, JNum(1030)}
SessionData ==
    UNION {[ks \cup {"notes"} ->
                TimeValues \cup {JNum(45)} \cup {JStr(<<"n">>)}] :
              ks \in SUBSET {"startTime", "endTime", "duration"}}
\* The sessions a caller builds: times under the time keys, minutes under
\* duration, text under notes.
Sessions ==
    {data \in SessionData :
        /\ data["notes"] = JStr(<<"n">>)
        /\ \A k \in DOMAIN data \cap {"startTime", "endTime"} : data[k] \in TimeValues
        /\ "duration" \in DOMAIN data => data["duration"] = JNum(45)}
\* The days the two clock reads of one call fall on: the second is not
\* before the first.
ClockDays == {<<0, 0>>, <<0, 1>>}

CalculateDurationFromTimes ==
    /\ helper.op = "TestSession"
    /\ ~helper.calculated.called
    /\ helper' = [helper EXCEPT
           !.calculated = Called(calculateDurationFromTimes(helper.data, helper.days))]
    /\ UNCHANGED notHelper

AutoCalculateDuration ==
    /\ helper.op = "TestSession"
    /\ ~helper.auto
    /\ helper' = [helper EXCEPT !.auto = TRUE,
                                !.before = helper.data,
                                !.data = autoCalculateDuration(helper.data, helper.days)]
    /\ UNCHANGED notHelper

\* No helper has been called; no model has been constructed.
NoHelperCall == [op |-> "none"]
NoModel == [constructed |-> FALSE]

Init ==
    /\ directoryCache = EmptyMap
    /\ cacheStats = [hits |-> 0, misses |-> 0, size |-> 0]
    /\ watchers = <<>>
    /\ closeLog = <<>>
    /\ nextWatcherId = 1
    /\ calls = [c \in Procs |-> Idle]
    /\ returned = <<>>
    /\ started = 0
    /\ retry = RetryIdle
    /\ schemas = SchemaNames
    /\ batch = BatchIdle
    /\ validation = [called |-> FALSE]
    /\ dirs = {<<>>}
    /\ files = {}
    /\ unreadable = {}
    /\ fsError = NoFsError
    /\ discovery = [called |-> FALSE]
    /\ scan = [called |-> FALSE]
    /\ helper = NoHelperCall
    /\ model = NoModel

\* The Manifest Service after construction: loadSchemas has filled the registry.
InitManifest ==
    /\ directoryCache = EmptyMap
    /\ cacheStats = [hits |-> 0, misses |-> 0, size |-> 0]
    /\ watchers = <<>>
    /\ closeLog = <<>>
    /\ nextWatcherId = 1
    /\ calls = [c \in Procs |-> Idle]
    /\ returned = <<>>
    /\ started = 0
    /\ retry = RetryIdle
    /\ schemas \in Registries
    /\ batch = BatchIdle
    /\ validation = [called |-> FALSE]
    /\ dirs = {<<>>}
    /\ files = {}
    /\ unreadable = {}
    /\ fsError = NoFsError
    /\ discovery = [called |-> FALSE]
    /\ scan = [called |-> FALSE]
    /\ helper = NoHelperCall
    /\ model = NoModel

\* The state in which a helper is called with given arguments.
InitHelper(call) ==
    /\ directoryCache = EmptyMap
    /\ cacheStats = [hits |-> 0, misses |-> 0, size |-> 0]
    /\ watchers = <<>>
    /\ closeLog = <<>>
    /\ nextWatcherId = 1
    /\ calls = [c \in Procs |-> Idle]
    /\ returned = <<>>
    /\ started = 0
    /\ retry = RetryIdle
    /\ schemas = SchemaNames
    /\ batch = BatchIdle
    /\ validation = [called |-> FALSE]
    /\ dirs = {<<>>}
    /\ files = {}
    /\ unreadable = {}
    /\ fsError = NoFsError
    /\ discovery = [called |-> FALSE]
    /\ scan = [called |-> FALSE]
    /\ helper = call
    /\ model = NoModel

\* The caller awaits each call before making the next one.
NextCacheSeq ==
    \E c \in Procs :
        \/ AllIdle /\ \E path \in Paths : OptimizeBegin(c, path)
        \/ \E result \in ScanResults : OptimizeResume(c, result)
        \/ AllIdle /\ \E path \in Paths : CacheStructureBegin(c, path)
        \/ \E structure \in ScanResults : CacheStructureResume(c, structure)
        \/ AllIdle /\ \E cacheKey \in CacheKeys : InvalidateCache(c, cacheKey)

SpecCacheSeq == Init /\ [][NextCacheSeq]_vars

\* A new call takes the first free slot of the event loop.
FirstFree(c) ==
    /\ started < MaxOverlapCalls
    /\ calls[c].pc = "idle"
    /\ \A d \in Procs : d < c => calls[d].pc # "idle"

\* The cache operations called at any time: a call may begin while others
\* are suspended at their awaits.
NextCache ==
    \E c \in Procs :
        \/ FirstFree(c) /\ \E path \in Paths : OptimizeBegin(c, path)
        \/ \E result \in ScanResults : OptimizeResume(c, result)
        \/ FirstFree(c) /\ \E path \in Paths : CacheStructureBegin(c, path)
        \/ \E structure \in ScanResults : CacheStructureResume(c, structure)
        \/ FirstFree(c) /\ \E cacheKey \in CacheKeys : InvalidateCache(c, cacheKey)

SpecCache == Init /\ [][NextCache]_vars

NextWatchSeq ==
    \E c \in Procs :
        \/ AllIdle /\ \E path \in Paths, watchOk \in BOOLEAN : WatchDirectory(c, path, watchOk)
        \/ AllIdle /\ \E watcherId \in WatcherIds : StopWatchingBegin(c, watcherId)
        \/ \E closeOk \in CloseOutcomes : StopWatchingResume(c, closeOk)
        \/ AllIdle /\ CleanupBegin(c)
        \/ \E closeOk \in CloseOutcomes : CleanupResume(c, closeOk)

SpecWatchSeq == Init /\ [][NextWatchSeq]_vars

\* The watch operations called at any time: a stopWatching or cleanupWatchers
\* call may begin while others are suspended at their await of close().
NextWatch ==
    \E c \in Procs :
        \/ FirstFree(c) /\ \E path \in Paths, watchOk \in BOOLEAN :
                               WatchDirectory(c, path, watchOk)
        \/ FirstFree(c) /\ \E watcherId \in WatcherIds : StopWatchingBegin(c, watcherId)
        \/ \E closeOk \in CloseOutcomes : StopWatchingResume(c, closeOk)
        \/ FirstFree(c) /\ CleanupBegin(c)
        \/ \E closeOk \in CloseOutcomes : CleanupResume(c, closeOk)

SpecWatch == Init /\ [][NextWatch]_vars

\* The watch operations and the pausing and resuming of watchers.
NextWatchOps ==
    \/ NextWatchSeq
    \/ \E c \in Procs :
        \/ AllIdle /\ \E watcherId \in WatcherIds : PauseWatching(c, watcherId)
        \/ AllIdle /\ \E watcherId \in WatcherIds : ResumeWatching(c, watcherId)

SpecWatchOps == Init /\ [][NextWatchOps]_vars

NextRetry ==
    \/ \E maxRetriesOption \in MaxRetriesOptions, baseDelayOption \in BaseDelayOptions :
           RetryBegin(maxRetriesOption, baseDelayOption)
    \/ \E outcome \in OperationOutcomes : RetryOperationSettles(outcome)
    \/ RetryDelayElapses

SpecRetry == Init /\ [][NextRetry]_vars

NextBatch ==
    \/ batch.pc = "idle" /\ \E filePaths \in PathLists : ProcessBegin(filePaths)
    \/ \E content \in Contents : ProcessFile(content)

SpecBatch == InitManifest /\ [][NextBatch]_vars

\* Batches of one file whose name is any of the token names.
NextInfer ==
    \/ batch.pc = "idle" /\ \E filePath \in TokenPaths \cup ExamplePaths :
                                 ProcessBegin(<<filePath>>)
    \/ \E content \in {c \in Contents : c.validFor = "none"} : ProcessFile(content)

SpecInfer == Init /\ [][NextInfer]_vars

NextValidate ==
    \E filePath \in ExamplePaths, schemaType \in SchemaTypes, content \in Contents :
        ValidateManifest(filePath, schemaType, content)

SpecValidate == InitManifest /\ [][NextValidate]_vars

NextDiscover ==
    \/ \E parent \in dirs, name \in DirNames : Mkdir(parent, name)
    \/ \E parent \in dirs, name \in FileNames : CreateFile(parent, name)
    \/ \E directoryPath \in dirs : Chmod(directoryPath)
    \/ \E directoryPath \in dirs \cup {<<Name_missing>>}, recursive \in BOOLEAN :
           Discover(directoryPath, recursive)

SpecDiscover == Init /\ [][NextDiscover]_vars

\* Scans with a depth limit of trees in which one stat or readdir may fail.
TreeSize == Cardinality(dirs) + Cardinality(files)
MaxDepthOptions == {NoOption} \cup {Option(n) : n \in 0..MaxScanDepth}
NextScan ==
    \/ /\ TreeSize <= MaxScanEntries
       /\ \/ \E parent \in dirs, name \in DirNames : Mkdir(parent, name)
          \/ \E parent \in dirs : CreateFile(parent, Name_d_yml)
    \/ \E directoryPath \in dirs : Chmod(directoryPath)
    \/ \E op \in {"readdir", "stat"}, path \in dirs \cup files :
           FsFault(op, path, ErrnoException("ENOENT"))
    \/ \E directoryPath \in dirs \cup {<<Name_missing>>}, recursive \in BOOLEAN,
          maxDepthOption \in MaxDepthOptions :
           Scan(directoryPath, recursive, maxDepthOption)

SpecScan == Init /\ [][NextScan]_vars

\* Scans and discoveries of a directory whose listing, or the stat of one of
\* its entries, fails with any error.
NextScanError ==
    \/ /\ TreeSize <= MaxFaultEntries
       /\ \/ \E parent \in dirs : Mkdir(parent, Name_sub)
          \/ \E parent \in dirs : CreateFile(parent, Name_a_json)
    \/ \E directoryPath \in dirs : Chmod(directoryPath)
    \/ \E op \in {"readdir", "stat"}, path \in dirs \cup files, error \in FsErrors :
           FsFault(op, path, error)
    \/ \E directoryPath \in dirs \cup {<<Name_missing>>}, recursive \in BOOLEAN :
           \/ Scan(directoryPath, recursive, NoOption)
           \/ ~scan.called /\ Discover(directoryPath, recursive)

SpecScanError == Init /\ [][NextScanError]_vars

\* mergeManifestData on every pair of the manifest data.
InitMerge ==
    \E baseData \in MergeObjects, additionalData \in MergeObjects :
        InitHelper([op |-> "mergeManifestData", done |-> FALSE,
                    baseData |-> baseData, additionalData |-> additionalData])
NextMerge == MergeManifestData
SpecMerge == InitMerge /\ [][NextMerge]_vars

\* sanitizeManifestData on every data object and schema.
InitSanitize ==
    \E data \in DataEntries, schema \in DataSchemas :
        InitHelper([op |-> "sanitizeManifestData", done |-> FALSE,
                    data |-> data, schema |-> schema])
NextSanitize == SanitizeManifestData
SpecSanitize == InitSanitize /\ [][NextSanitize]_vars

\* recoverFromCorruptedFile on every path and file content.
InitRecover ==
    \E filePath \in RecoverPaths,
       read \in {ReadResolves(content) : content \in CorruptedTexts} \cup {ReadRejects} :
        InitHelper([op |-> "recoverFromCorruptedFile", done |-> FALSE,
                    filePath |-> filePath, read |-> read])
NextRecover == RecoverFromCorruptedFile
SpecRecover == InitRecover /\ [][NextRecover]_vars

\* A model is built, changed, validated and serialized, while code outside
\* changes the objects it holds.
NextModel ==
    \/ \E fields \in ModelRecords, schemaName \in SchemaNameOptions :
           Construct(fields, schemaName)
    \/ \E key \in ModelKeys, value \in ModelValues : Set(key, value)
    \/ \E updates \in ModelRecords : Update(updates)
    \/ IsValid
    \/ ToJSON
    \/ \E ref \in {JRef(n) : n \in 1..(MaxHandedOut + 2)},
          key \in ModelKeys, value \in ModelValues : OutsidePut(ref, key, value)
    \/ \E ref \in {JRef(n) : n \in 1..(MaxHandedOut + 2)}, key \in ModelKeys :
           OutsideDelete(ref, key)

SpecModel == Init /\ [][NextModel]_vars

\* A model with list properties is built and its lists are added to and
\* removed from.
NextLists ==
    \/ \E className \in ClassNames :
           \E lists \in InitialListsOf(className) : ConstructWithLists(className, lists)
    \/ \E value \in ListValues : addObjective(value)
    \/ \E value \in ListValues : removeObjective(value)
    \/ \E value \in ListValues : addRisk(value)
    \/ \E value \in ListValues : removeRisk(value)
    \/ \E value \in ListValues : addDependency(value)
    \/ \E value \in ListValues : removeDependency(value)
    \/ \E value \in ListValues : addTag(value)
    \/ \E value \in ListValues : removeTag(value)
    \/ \E value \in ListValues : addDocumentReference(value)
    \/ \E value \in ListValues : removeDocumentReference(value)

SpecLists == Init /\ [][NextLists]_vars

\* A model is built and cloned, and the model and its clone are operated on.
NextClone ==
    \/ \E className \in CloneClassNames, name \in CloneNames :
           \E nested \in InitialNestedOf(className) : NewModel(className, name, nested)
    \/ Clone
    \/ \E target \in {"m", "c"} :
        \/ \E value \in CloneNames : SetOn(target, "name", value)
        \/ \E value \in CloneNames : UpdateOn(target, [k \in {"name"} |-> value])
        \/ \E tag \in NestedValues : AddTagOn(target, tag)
        \/ \E finding \in NestedValues : AddFindingOn(target, finding)
        \/ \E value \in NestedValues : SetMetadataValueOn(target, "owner", value)
        \/ \E hours \in HoursValues : SetEstimatedHoursOn(target, hours)

SpecClone == Init /\ [][NextClone]_vars

\* A report with some metrics is asked for its pass rate and defect density.
InitReport ==
    \E metrics \in MetricsOptions :
        InitHelper([op |-> "TestReport", metrics |-> metrics,
                    passRate |-> NotCalled, defectDensity |-> NotCalled])
NextReport ==
    \/ GetPassRate
    \/ GetDefectDensity
SpecReport == InitReport /\ [][NextReport]_vars

\* A session with some times is asked for its duration, before or after it
\* has stored it.
InitSession ==
    \E data \in Sessions, days \in ClockDays :
        InitHelper([op |-> "TestSession", data |-> data, days |-> days,
                    before |-> data, calculated |-> NotCalled, auto |-> FALSE])
NextSession ==
    \/ CalculateDurationFromTimes
    \/ AutoCalculateDuration
SpecSession == InitSession /\ [][NextSession]_vars

\* The files a discovery found: manifest files by extension, one with a
\* name built from the keywords or two of the examples.
ManifestPaths ==
    {filePath \in TokenPaths \cup ExamplePaths :
        ToLowerCase(Extname(filePath)) \in {Str_json, Str_yaml, Str_yml}}
DiscoveredLists ==
    {<<filePath>> : filePath \in ManifestPaths}
        \cup {<<a, b>> : a \in ExamplePaths \cap ManifestPaths,
                         b \in ExamplePaths \cap ManifestPaths}
InitClassify ==
    \E discovered \in DiscoveredLists :
        InitHelper([op |-> "classify", done |-> FALSE, discovered |-> discovered,
                    grouped |-> <<>>, passes |-> <<>>, info |-> <<>>, inferred |-> <<>>])
NextClassify == ClassifyFile
SpecClassify == InitClassify /\ [][NextClassify]_vars

\* Discoveries of the root directory, or of a missing one, that validate what
\* they find, over trees whose files read and parse or fail to.
NextDiscoverValidating ==
    \/ /\ TreeSize <= MaxScanEntries
       /\ \/ \E parent \in dirs : Mkdir(parent, Name_sub)
          \/ \E parent \in dirs, name \in {Name_a_json, Name_b_YAML, Name_d_yml} :
                 CreateFile(parent, name)
    \/ \E directoryPath \in dirs : Chmod(directoryPath)
    \/ \E directoryPath \in {<<>>, <<Name_missing>>}, recursive \in BOOLEAN,
          validate \in BOOLEAN :
           \E reads \in [files -> ReadOutcomes] :
               DiscoverValidating(directoryPath, recursive, validate, reads)

SpecDiscoverValidating == Init /\ [][NextDiscoverValidating]_vars

InitDiff ==
    \E originalData \in DiffRecords, modifiedData \in DiffRecords :
        InitHelper([op |-> "diffManifestData", done |-> FALSE,
                    originalData |-> originalData, modifiedData |-> modifiedData,
                    outcome |-> <<>>])
NextDiff == DiffManifestData
SpecDiff == InitDiff /\ [][NextDiff]_vars

(***************************************************************************)
(* Properties.                                                             *)
(***************************************************************************)
Last(seq) == seq[Len(seq)]
OptimizeLog == SelectSeq(returned, LAMBDA r : r.op = "optimizeDirectoryScanning")
NoInvalidate == \A i \in DOMAIN returned : returned[i].op # "invalidateCache"
IsRate(x, num, den) == ~x.nan /\ x.num * den = num * x.den

\* The first two optimizeDirectoryScanning calls were made one after the other
\* on the same path, and nothing was invalidated.
TwoSuccessiveCalls ==
    /\ AllIdle
    /\ NoInvalidate
    /\ Len(OptimizeLog) = 2
    /\ OptimizeLog[1].arg = OptimizeLog[2].arg

\* C1: from an empty cache and zero counters, two successive
\* optimizeDirectoryScanning calls on one path (no invalidateCache) report
\* cached:false then cached:true, and getCacheStats then reports hits = 1,
\* misses = 1, hitRate = 0.5; before any lookup hitRate is 0, never NaN.
C1_TwoCallsMissThenHit ==
    /\ TwoSuccessiveCalls =>
          /\ OptimizeLog[1].result.cached = FALSE
          /\ OptimizeLog[2].result.cached = TRUE
          /\ getCacheStats.hits = 1
          /\ getCacheStats.misses = 1
          /\ IsRate(getCacheStats.hitRate, 1, 2)
    /\ cacheStats.hits + cacheStats.misses = 0 => IsRate(getCacheStats.hitRate, 0, 1)

C1_Witness ==
    /\ TwoSuccessiveCalls
    /\ OptimizeLog[2].result.cached
    /\ IsRate(getCacheStats.hitRate, 1, 2)

\* watchDirectory returned the id w.
CreatedAt(i, w) ==
    /\ returned[i].op = "watchDirectory"
    /\ returned[i].result.success
    /\ returned[i].result.watcherId = w
\* A stopWatching(w) succeeded.
StoppedAt(i, w) ==
    /\ returned[i].op = "stopWatching"
    /\ returned[i].arg = w
    /\ returned[i].result.success
\* A cleanupWatchers completed after w was created.
CleanedAfterCreation(w) ==
    \E i, j \in DOMAIN returned :
        i < j /\ CreatedAt(i, w) /\ returned[j].op = "cleanupWatchers"

WatcherActiveUntilStopped ==
    \A w \in WatcherIds :
        ((\E i \in DOMAIN returned : CreatedAt(i, w))
            /\ ~(\E i \in DOMAIN returned : StoppedAt(i, w))
            /\ ~CleanedAfterCreation(w))
        => getWatcherStatus(w).status = "active"

StoppedWatcherIsGone ==
    \A w \in WatcherIds : \A i \in DOMAIN returned :
        StoppedAt(i, w) =>
            /\ getWatcherStatus(w).status = "not_found"
            /\ \E k \in DOMAIN closeLog :
                   /\ closeLog[k].watcherId = w
                   /\ closeLog[k].call = returned[i].call
                   /\ closeLog[k].outcome = "resolved"
            /\ \A j \in DOMAIN returned :
                   (j > i /\ returned[j].op = "stopWatching" /\ returned[j].arg = w)
                   => /\ ~returned[j].result.success
                      /\ returned[j].result.errorType = "watcher_not_found"

\* The step in which a stopWatching resolves to watcher_not_found.
StopNotFoundStep ==
    /\ Len(returned') = Len(returned) + 1
    /\ Last(returned').op = "stopWatching"
    /\ ~Last(returned').result.success
    /\ Last(returned').result.errorType = "watcher_not_found"

\* C9: after watchDirectory returned w, getWatcherStatus(w) is 'active' until a
\* stopWatching(w) succeeds or a cleanupWatchers completes; a successful
\* stopWatching(w) has closed the watcher and removed it, so the status is then
\* 'not_found' and every further stopWatching(w) fails with watcher_not_found
\* and leaves the registry as it was.
C9_WatcherLifecycle ==
    /\ [](WatcherActiveUntilStopped /\ StoppedWatcherIsGone)
    /\ [][StopNotFoundStep => UNCHANGED watchVars]_vars

C9_Witness ==
    \E w \in WatcherIds : \E i, j \in DOMAIN returned :
        /\ StoppedAt(i, w)
        /\ j > i
        /\ returned[j].op = "stopWatching"
        /\ returned[j].arg = w
        /\ \E k \in DOMAIN returned : k < i /\ CreatedAt(k, w)

\* The close() calls the call numbered n made that resolved.
ClosedOkBy(log, n) == {k \in DOMAIN log : log[k].call = n /\ log[k].outcome = "resolved"}

\* The step in which a cleanupWatchers resolves.
CleanupReturnStep ==
    /\ Len(returned') = Len(returned) + 1
    /\ Last(returned').op = "cleanupWatchers"

\* C10: cleanupWatchers calls close() on every registered watcher even when some
\* close() fail, resolves to success:true with cleanedUp = the number of close()
\* calls that succeeded, and leaves the registry empty.
C10_CleanupClosesAll ==
    [][CleanupReturnStep =>
          /\ Last(returned').result.success
          /\ Last(returned').result.cleanedUp =
                 Cardinality(ClosedOkBy(closeLog', Last(returned').call))
          /\ \A w \in Range(watchers) : \E k \in DOMAIN closeLog' :
                 closeLog'[k].watcherId = w /\ closeLog'[k].call = Last(returned').call
          /\ watchers' = <<>>]_vars

C10_Witness ==
    /\ returned # <<>>
    /\ Last(returned).op = "cleanupWatchers"
    /\ Last(returned).result.cleanedUp >= 1
    /\ \E k \in DOMAIN closeLog :
           /\ closeLog[k].call = Last(returned).call
           /\ closeLog[k].outcome = "rejected"
           /\ \E m \in DOMAIN closeLog :
                  /\ m > k
                  /\ closeLog[m].call = Last(returned).call
                  /\ closeLog[m].outcome = "resolved"

\* The invocations of the operation so far: the settled ones and the pending one.
Invocations == Len(retry.outcomes) + (IF retry.pc = "operation" THEN 1 ELSE 0)
AllFailed == \A j \in DOMAIN retry.outcomes : ~retry.outcomes[j].ok
ExpectedDelays(count) == [j \in 1..count |-> retry.baseDelay * 2 ^ (j - 1)]

\* C4: with maxRetries n >= 1 and an operation that always throws,
\* retryOperation invokes it exactly n times and resolves to success:false,
\* errorType max_retries_exceeded, attempts n and the last error's message;
\* there is never an (n+1)-th invocation.
C4_ExhaustedAfterMaxRetries ==
    (retry.pc # "idle" /\ retry.maxRetries >= 1) =>
        /\ Invocations <= retry.maxRetries
        /\ (retry.pc = "done" /\ AllFailed) =>
              /\ Invocations = retry.maxRetries
              /\ retry.result = [settled |-> "resolved", success |-> FALSE,
                                 errorType |-> "max_retries_exceeded",
                                 error |-> Last(retry.outcomes).value,
                                 attempts |-> retry.maxRetries]

C4_Witness ==
    /\ retry.pc = "done"
    /\ retry.maxRetries >= 2
    /\ AllFailed
    /\ retry.outcomes[1].value # Last(retry.outcomes).value
    /\ retry.result.attempts = retry.maxRetries

\* C5: retryOperation stops at the first success: a success on the k-th
\* invocation (k <= maxRetries) gives success:true with the operation's value
\* and attempts = k after exactly k invocations; the wait after failed attempt
\* j < k is baseDelay * 2^(j-1); an exhausted run has no wait after its final
\* failed attempt.
C5_StopsAtFirstSuccess ==
    /\ \A j \in DOMAIN retry.outcomes : retry.outcomes[j].ok => j = Len(retry.outcomes)
    /\ (retry.pc = "done" /\ retry.outcomes # <<>> /\ Last(retry.outcomes).ok) =>
          /\ retry.result = [settled |-> "resolved", success |-> TRUE,
                             result |-> Last(retry.outcomes).value,
                             attempts |-> Len(retry.outcomes)]
          /\ Invocations = Len(retry.outcomes)
          /\ Len(retry.outcomes) <= retry.maxRetries
          /\ retry.delays = ExpectedDelays(Len(retry.outcomes) - 1)
    /\ (retry.pc = "done" /\ retry.outcomes # <<>> /\ AllFailed) =>
          retry.delays = ExpectedDelays(Len(retry.outcomes) - 1)

C5_Witness ==
    /\ retry.pc = "done"
    /\ Len(retry.outcomes) = 3
    /\ retry.result.settled = "resolved"
    /\ retry.result.success
    /\ retry.delays = <<250, 500>>

\* C2: processManifestFiles infers project, test-strategy, test-charter and
\* test-status-report for project1.json, strategy1.yaml, charter-final.yml and
\* status-report.json.
C2_ExampleTypes ==
    \A i \in DOMAIN batch.validated :
        LET v == batch.validated[i]
        IN  /\ v.filePath = Path_project1 => v.schemaType = "project"
            /\ v.filePath = Path_strategy1 => v.schemaType = "test-strategy"
            /\ v.filePath = Path_charterFinal => v.schemaType = "test-charter"
            /\ v.filePath = Path_statusReport => v.schemaType = "test-status-report"

\* The order of the search as the claim gives it.
ClaimedOrder ==
    << <<Str_strategy, "test-strategy">>, <<Str_plan, "test-plan">>,
       <<Str_charter, "test-charter">>, <<Str_session, "test-session">>,
       <<Str_report, "test-report">>, <<Str_suite, "test-suite">>,
       <<Str_case, "test-case">>, <<Str_status, "test-status-report">> >>

\* The base name of the path with its extension removed.
NameWithoutExtension(filePath) ==
    SubSeq(Basename(filePath), 1, Len(Basename(filePath)) - Len(Extname(filePath)))

\* t is the type of the earliest keyword the name includes, or project.
IsFirstMatch(name, t) ==
    \/ \E i \in DOMAIN ClaimedOrder :
          /\ Includes(name, ClaimedOrder[i][1])
          /\ \A j \in 1..(i - 1) : ~Includes(name, ClaimedOrder[j][1])
          /\ t = ClaimedOrder[i][2]
    \/ /\ \A i \in DOMAIN ClaimedOrder : ~Includes(name, ClaimedOrder[i][1])
       /\ t = "project"

\* C3: the schema type of every file is that of the first keyword, in the order
\* strategy, plan, charter, session, report, suite, case, status, that its base
\* name without extension includes, and project when it includes none;
\* project-report-2025.json is validated as test-report.
C3_FirstMatchInOrder ==
    \A i \in DOMAIN batch.validated :
        LET v == batch.validated[i]
        IN  /\ IsFirstMatch(NameWithoutExtension(v.filePath), v.schemaType)
            /\ v.filePath = Path_projectReport2025 => v.schemaType = "test-report"

C3_Witness ==
    \E i \in DOMAIN batch.validated :
        /\ batch.validated[i].filePath = Path_projectReport2025
        /\ batch.validated[i].schemaType = "test-report"
        /\ Len(batch.results) = i

\* The i-th file of the batch cannot pass: it is unreadable, unparsable, of an
\* unsupported format, or does not conform to the schema inferred for it.
FileFails(i) ==
    \/ batch.reads[i].kind # "data"
    \/ ~isSupportedFormat(getFileExtension(batch.filePaths[i]))
    \/ batch.validated[i].schemaType \notin schemas
    \/ batch.reads[i].validFor # batch.validated[i].schemaType

\* C7: processManifestFiles returns one result per input path, in input order;
\* a file that fails to read, parse or validate gets isValid:false with a
\* non-empty errors list, and the other files are processed all the same.
C7_OneResultPerPathInOrder ==
    /\ Len(batch.results) <= Len(batch.filePaths)
    /\ batch.pc = "done" => Len(batch.results) = Len(batch.filePaths)
    /\ \A i \in DOMAIN batch.results :
          /\ batch.results[i].filePath = batch.filePaths[i]
          /\ FileFails(i) => (~batch.results[i].isValid /\ batch.results[i].errors # <<>>)
          /\ ~FileFails(i) => /\ batch.results[i].isValid
                              /\ batch.results[i].errors = <<>>
                              /\ batch.results[i].data = batch.reads[i]

C7_Witness ==
    /\ batch.pc = "done"
    /\ Len(batch.results) = 2
    /\ batch.reads[1].kind = "EACCES"
    /\ ~batch.results[1].isValid
    /\ batch.results[2].isValid

UnknownSchemaType == Message("Unknown schema type: ", <<validation.schemaType>>)
ReadSucceeds ==
    /\ isSupportedFormat(getFileExtension(validation.filePath))
    /\ validation.content.kind = "data"

\* What C8 says of every call whatever the file: the result shape.
ValidationEnvelope ==
    /\ validation.outcome.settled = "resolved"
    /\ validation.outcome.value.filePath = validation.filePath
    /\ validation.outcome.value.data # NullData => validation.outcome.value.isValid
    /\ validation.outcome.value.errors = <<>> <=> validation.outcome.value.isValid

\* C8 as stated: validateManifest never throws, returns {isValid, data, errors,
\* filePath} with filePath the argument, data non-null only when isValid, errors
\* empty exactly when isValid, and reports an unknown schema type as
\* isValid:false with the error 'Unknown schema type: <type>'.
C8_AsStated ==
    validation.called =>
        /\ ValidationEnvelope
        /\ validation.schemaType \notin schemas =>
              /\ ~validation.outcome.value.isValid
              /\ \E k \in DOMAIN validation.outcome.value.errors :
                     validation.outcome.value.errors[k] = UnknownSchemaType

\* C8 amended: as stated, but an unknown schema type is reported with the error
\* 'Unknown schema type: <type>' only when the file was read and parsed; when
\* it was not, the single error is the read or parse error.
C8_UnknownTypeAfterRead ==
    validation.called =>
        /\ ValidationEnvelope
        /\ validation.schemaType \notin schemas =>
              /\ ~validation.outcome.value.isValid
              /\ ReadSucceeds => validation.outcome.value.errors = <<UnknownSchemaType>>
              /\ ~ReadSucceeds =>
                     /\ Len(validation.outcome.value.errors) = 1
                     /\ validation.outcome.value.errors[1] # UnknownSchemaType

C8_Witness ==
    /\ validation.called
    /\ validation.schemaType \notin schemas
    /\ validation.content.kind = "ENOENT"
    /\ validation.outcome.settled = "resolved"
    /\ validation.outcome.value.errors = <<Message("File not found: ", validation.filePath)>>

IsManifestFile(path) == ToLowerCase(Extname(path[Len(path)])) \in MANIFEST_EXTENSIONS
IsUnder(path, directoryPath) ==
    Len(path) > Len(directoryPath) /\ SubSeq(path, 1, Len(directoryPath)) = directoryPath

\* C6: for a tree shallower than maxDepth (all of it readable),
\* discoverManifestFiles returns exactly the top-level .json/.yaml/.yml files
\* when non-recursive and, with recursive:true, also every such file in every
\* subdirectory at any depth, so that totalFound is the recursive scan's
\* totalFiles; no file of another extension is ever returned.
C6_DiscoversAllLevels ==
    (discovery.called /\ discovery.result.success /\ unreadable = {}) =>
        /\ Range(discovery.result.files) =
               {f \in files :
                   /\ IsManifestFile(f)
                   /\ IF discovery.recursive THEN IsUnder(f, discovery.directoryPath)
                      ELSE Parent(f) = discovery.directoryPath}
        /\ discovery.recursive =>
               discovery.result.totalFound =
                   scanDirectory(discovery.directoryPath, TRUE, MANIFEST_EXTENSIONS,
                                 DefaultMaxDepth, 0).totalFiles

\* C11: a recursive scanDirectory never lists a directory at a depth of maxDepth
\* or more below the requested one, and the maxDepthReached of a successful
\* result is true exactly when some directory at depth maxDepth was reached
\* and cut off.
CutOff == {i \in DOMAIN scan.calls : scan.calls[i].depth = scan.maxDepth}
C11_DepthLimitAndFlag ==
    (scan.called /\ scan.recursive) =>
        /\ \A i \in DOMAIN scan.calls :
               scan.calls[i].listed => scan.calls[i].depth < scan.maxDepth
        /\ \A i \in CutOff : ~scan.calls[i].listed
        /\ scan.result.success => (scan.result.maxDepthReached <=> CutOff # {})


\* C12: scanDirectory and discoverManifestFiles resolve to a result whatever
\* happens; when the listing of the requested directory or the stat of one of
\* its entries fails, the result is success:false with the error's message, a
\* suggestions list, and the errorType of the first of ENOENT, EACCES, ENOSPC,
\* EBUSY that is the error's code or occurs in its message, file_system_error
\* if none does.
ClassifiedOrder == <<"ENOENT", "EACCES", "ENOSPC", "EBUSY">>
ClassifiedTypes == <<"file_not_found", "permission_denied", "disk_full", "concurrent_access">>
ExpectedErrorType(error) ==
    LET hits == {i \in DOMAIN ClassifiedOrder :
                    \/ error.code = ClassifiedOrder[i]
                    \/ Includes(error.message, CodeText(ClassifiedOrder[i]))}
    IN  IF hits = {} THEN "file_system_error"
        ELSE ClassifiedTypes[CHOOSE i \in hits : \A j \in hits : i <= j]
StatFailsIn(directoryPath) ==
    fsError.op = "stat" /\ Len(fsError.path) > 0 /\ Parent(fsError.path) = directoryPath
        /\ fsError.path \in dirs \cup files
ListingFails(directoryPath) ==
    ReaddirRejects(directoryPath) \/ StatFailsIn(directoryPath)
ListingError(directoryPath) ==
    IF ReaddirRejects(directoryPath) THEN ReaddirError(directoryPath) ELSE fsError.error
IsFailureEnvelope(result, error) ==
    /\ DOMAIN result = {"success", "error", "errorType", "suggestions"}
    /\ result.success = FALSE
    /\ result.error = error.message
    /\ result.errorType = ExpectedErrorType(error)
    /\ Len(result.suggestions) > 0
C12_FailureEnvelope ==
    /\ scan.called =>
           /\ scan.result.success \in BOOLEAN
           /\ ListingFails(scan.directoryPath) =>
                  IsFailureEnvelope(scan.result, ListingError(scan.directoryPath))
    /\ discovery.called =>
           /\ discovery.result.success \in BOOLEAN
           /\ ListingFails(discovery.directoryPath) =>
                  IsFailureEnvelope(discovery.result, ListingError(discovery.directoryPath))
\* The stat of an entry failed with code EBUSY and a message naming ENOENT: the
\* scan reports file_not_found.
C12_Witness ==
    /\ scan.called
    /\ StatFailsIn(scan.directoryPath) /\ ~ReaddirRejects(scan.directoryPath)
    /\ fsError.error.code = "EBUSY"
    /\ Includes(fsError.error.message, Str_ENOENT)
    /\ scan.result.errorType = "file_not_found"

\* C13: for calls made one after the other, an optimizeDirectoryScanning(p)
\* is a hit (cached:true, scanTime 0, returned without awaiting a scan) exactly
\* when an earlier optimizeDirectoryScanning(p) completed and no
\* invalidateCache('scan-' + p) came after it, whatever was done to other keys;
\* invalidateCache returns invalidated:true for present and absent keys and
\* leaves the hit and miss counters alone.
Touches(i, path) ==
    \/ returned[i].op = "optimizeDirectoryScanning" /\ returned[i].arg = path
    \/ returned[i].op = "invalidateCache" /\ returned[i].arg = ScanKey(path)
CachedBefore(i, path) ==
    \E j \in 1..(i - 1) :
        /\ returned[j].op = "optimizeDirectoryScanning" /\ returned[j].arg = path
        /\ \A k \in (j + 1)..(i - 1) : ~Touches(k, path)
HitOrMissByHistory ==
    \A i \in DOMAIN returned :
        returned[i].op = "optimizeDirectoryScanning" =>
            IF CachedBefore(i, returned[i].arg)
            THEN returned[i].result.cached /\ returned[i].result.scanTime = "zero"
            ELSE ~returned[i].result.cached /\ returned[i].result.scanTime = "measured"
ReturnsStep(op) == Len(returned') = Len(returned) + 1 /\ Last(returned').op = op
HitStep == ReturnsStep("optimizeDirectoryScanning") /\ Last(returned').result.cached
InvalidateStep == ReturnsStep("invalidateCache")
C13_NoImplicitEviction ==
    /\ []HitOrMissByHistory
    /\ [][HitStep => (AllIdle /\ AllIdle' /\ directoryCache' = directoryCache)]_vars
    /\ [][InvalidateStep =>
             /\ Last(returned').result.invalidated
             /\ cacheStats'.hits = cacheStats.hits
             /\ cacheStats'.misses = cacheStats.misses]_vars
\* A miss, a hit after work on another key, an invalidation of the key, and a
\* miss again.
C13_Witness ==
    /\ Len(returned) = 4
    /\ \E path \in Paths :
        /\ returned[1].op = "optimizeDirectoryScanning" /\ returned[1].arg = path
        /\ ~returned[1].result.cached
        /\ returned[2].op = "optimizeDirectoryScanning" /\ returned[2].arg = path
        /\ returned[2].result.cached
        /\ returned[3].op = "invalidateCache" /\ returned[3].arg = ScanKey(path)
        /\ returned[4].op = "optimizeDirectoryScanning" /\ returned[4].arg = path
        /\ ~returned[4].result.cached

\* C14: mergeManifestData(base, extra) merges recursively the keys whose value
\* is a plain object, not an array, in both operands; for every other key of
\* extra the extra value replaces the base value; keys only in base are kept.
RECURSIVE MergedAsClaimed(_, _)
MergedAsClaimed(base, extra) ==
    JObj([k \in DOMAIN base.fields \cup DOMAIN extra.fields |->
            IF k \notin DOMAIN extra.fields THEN base.fields[k]
            ELSE IF /\ k \in DOMAIN base.fields
                    /\ base.fields[k].t = "object"
                    /\ extra.fields[k].t = "object"
                 THEN MergedAsClaimed(base.fields[k], extra.fields[k])
                 ELSE extra.fields[k]])
C14_MergeAsClaimed ==
    (helper.op = "mergeManifestData" /\ helper.done) =>
        /\ ~helper.outcome.threw
        /\ helper.outcome.value = MergedAsClaimed(helper.baseData, helper.additionalData)

\* C15: sanitizeManifestData splits the input's top-level keys: sanitized holds
\* exactly the input keys declared in schema.properties, removedFields exactly
\* the others, the two counts add up to the number of input keys and no key is
\* in both; {id:'x', name:'y', extra:'z'} under properties {id, name} gives
\* sanitized {id:'x', name:'y'} and removedFields ['extra'].
Sanitized == helper.op = "sanitizeManifestData" /\ helper.done
Declared == IF helper.schema.hasProperties THEN helper.schema.properties ELSE {}
ExampleData == <<[key |-> "id", value |-> JStr(Str_x)],
                 [key |-> "name", value |-> JStr(Str_y)],
                 [key |-> "extra", value |-> JStr(Str_z)]>>
C15_SanitizePartitions ==
    Sanitized =>
        LET out == helper.outcome
            inputKeys == Range(Keys(helper.data))
            sanitizedKeys == Range(Keys(out.sanitized))
            removedKeys == Range(out.removedFields)
        IN  /\ sanitizedKeys = inputKeys \cap Declared
            /\ removedKeys = inputKeys \ Declared
            /\ sanitizedKeys \cap removedKeys = {}
            /\ out.sanitizedCount = Cardinality(sanitizedKeys)
            /\ out.removedCount = Cardinality(removedKeys)
            /\ out.removedCount = Len(out.removedFields)
            /\ out.sanitizedCount + out.removedCount = Len(helper.data)
            /\ (helper.data = ExampleData /\ helper.schema = Properties({"id", "name"})) =>
                   /\ out.sanitized = SubSeq(ExampleData, 1, 2)
                   /\ out.removedFields = <<"extra">>
C15_Witness ==
    /\ Sanitized
    /\ helper.data = ExampleData
    /\ helper.schema = Properties({"id", "name"})
    /\ helper.outcome.removedFields = <<"extra">>

\* C16: for a path ending in .json, recoverFromCorruptedFile reports
\* recoveryMethod auto_fix, with a fixedContent that parses as JSON, whenever
\* recovered is true, and failed whenever recovered is false; for any other
\* path it reports recovered:false with not_supported.  The content
\* {"id":"x","name":"y", is recovered.
Recovered == helper.op = "recoverFromCorruptedFile" /\ helper.done
C16_RecoveryMethod ==
    Recovered =>
        IF EndsWith(helper.filePath, Str_json)
        THEN /\ helper.outcome.recovered =>
                    /\ helper.outcome.recoveryMethod = "auto_fix"
                    /\ JsonParses(helper.outcome.fixedContent)
             /\ ~helper.outcome.recovered => helper.outcome.recoveryMethod = "failed"
             /\ (~helper.read.rejected /\ helper.read.content = SubSeq(Text_example, 1, 21))
                    => helper.outcome.recovered
        ELSE /\ ~helper.outcome.recovered
             /\ helper.outcome.recoveryMethod = "not_supported"

\* C17: every failure result (success:false) a watch operation returns has a
\* message or error field and a non-empty suggestions list.
HasRemediation(result) ==
    /\ DOMAIN result \cap {"error", "message"} # {}
    /\ "suggestions" \in DOMAIN result
    /\ Len(result.suggestions) > 0
C17_FailuresCarrySuggestions ==
    \A i \in DOMAIN returned :
        ("success" \in DOMAIN returned[i].result /\ ~returned[i].result.success) =>
            HasRemediation(returned[i].result)

\* C18: getValidationErrors() is exactly the error list of the most recent
\* isValid() call, whatever set and update did since: empty before the first
\* call, empty after an isValid() that returned true even when an earlier call
\* failed; a model without a schema always answers true and keeps the list
\* empty.
LastIsValid == model.isValidCalls[Len(model.isValidCalls)]
ErrorsProducedBy(call) ==
    IF model.hasValidator THEN SchemaErrors(call.data) ELSE <<>>
C18_ErrorsOfLastIsValid ==
    model.constructed =>
        /\ model.isValidCalls = <<>> => getValidationErrors = <<>>
        /\ model.isValidCalls # <<>> =>
              /\ getValidationErrors = ErrorsProducedBy(LastIsValid)
              /\ LastIsValid.result = (ErrorsProducedBy(LastIsValid) = <<>>)
              /\ LastIsValid.result => getValidationErrors = <<>>
        /\ ~model.hasValidator =>
              /\ \A i \in DOMAIN model.isValidCalls : model.isValidCalls[i].result
              /\ getValidationErrors = <<>>
\* A failed isValid(), a repair by set or update, and an isValid() that
\* returned true.
C18_Witness ==
    /\ model.constructed
    /\ model.hasValidator
    /\ Len(model.isValidCalls) >= 2
    /\ ~model.isValidCalls[1].result
    /\ LastIsValid.result
    /\ model.lastOp = "isValid"

\* C19: adding, replacing or deleting a top-level key of an object toJSON()
\* returned, or of the record given to the constructor, changes nothing of
\* what get, has, keys and toJSON report; set and update change no object
\* toJSON() returned before.
Get(key) == IF key \in DOMAIN Data THEN Data[key] ELSE [t |-> "undefined"]
Has(key) == key \in DOMAIN Data
KeysReport == DOMAIN Data
ToJSONReport == Data
Reports ==
    [get |-> [key \in ModelKeys |-> Get(key)],
     has |-> [key \in ModelKeys |-> Has(key)],
     keys |-> KeysReport,
     toJSON |-> ToJSONReport]
OutsideStep == model.constructed /\ model'.lastOp = "outside" /\ model'.ops # model.ops
SetOrUpdateStep ==
    model.constructed /\ model'.lastOp \in {"set", "update"} /\ model'.ops # model.ops
C19_TopLevelIsolation ==
    [][/\ OutsideStep => Reports' = Reports
       /\ SetOrUpdateStep =>
              \A i \in DOMAIN model.handedOut :
                  model'.heap[model.handedOut[i].ref] = model.heap[model.handedOut[i].ref]]_vars
\* The record given to the constructor and an object toJSON() returned have
\* both been changed from outside and both differ from the model's data.
C19_Witness ==
    /\ model.constructed
    /\ model.handedOut # <<>>
    /\ model.lastOp = "outside"
    /\ model.heap[model.source.ref].fields # Data
    /\ model.heap[model.handedOut[1].ref].fields # Data
    /\ model.heap[model.handedOut[1].ref].fields # model.heap[model.source.ref].fields

\* C20: a list that starts without duplicates has none after any sequence of
\* add and remove calls: adding a value it holds and removing a value it does
\* not hold leave it as it was, a new value goes to the end, and the values
\* that stay keep their order.
DuplicateFree(items) ==
    \A i, j \in DOMAIN items : items[i] = items[j] => i = j
AllListKeys == UNION {ListKeysOf(className) : className \in ClassNames}
Lists == [key \in AllListKeys |-> getList(key)]
ListStep ==
    model.constructed =>
        LET call == model'.lastCall
            before == Lists[call.key]
            after == Lists'[call.key]
            held == ArrayIncludes(before, call.value)
        IN  /\ \A key \in AllListKeys \ {call.key} : Lists'[key] = Lists[key]
            /\ call.op = "add" /\ held => after = before
            /\ call.op = "add" /\ ~held => after = Append(before, call.value)
            /\ call.op = "remove" /\ ~held => after = before
            /\ call.op = "remove" /\ held => after = Without(before, call.value)
C20_ListsStayDuplicateFree ==
    /\ [](model.constructed => \A key \in AllListKeys : DuplicateFree(Lists[key]))
    /\ [][ListStep]_vars
\* A value was removed from the middle of a list, added again at its end, and
\* added once more without effect.
C20_Witness ==
    /\ model.constructed
    /\ model.ops >= 3
    /\ model.lastCall.op = "add"
    /\ \E key \in AllListKeys :
           /\ Lists[key] = <<JStr("a"), JStr("c"), JStr("b")>>
           /\ model.lastCall = [op |-> "add", key |-> key, value |-> JStr("b")]

\* C21: getPassRate() is round(100 * (executed - defects) / executed) and
\* getDefectDensity() is defects / executed, absent defects counting as 0;
\* when testCasesExecuted is 0 or absent (no metrics, or metrics without the
\* field) both are null, never NaN.
ExecutedOf(metrics) ==
    IF metrics.t = "object" /\ "testCasesExecuted" \in DOMAIN metrics.fields
    THEN metrics.fields["testCasesExecuted"].v ELSE 0
DefectsOf(metrics) ==
    IF metrics.t = "object" /\ "defectsFound" \in DOMAIN metrics.fields
    THEN metrics.fields["defectsFound"].v ELSE 0
PassRateAsClaimed(metrics) ==
    IF ExecutedOf(metrics) = 0 THEN JNull
    ELSE RoundPercent(ExecutedOf(metrics) - DefectsOf(metrics), ExecutedOf(metrics))
DefectDensityAsClaimed(metrics) ==
    IF ExecutedOf(metrics) = 0 THEN JNull
    ELSE Ratio(DefectsOf(metrics), ExecutedOf(metrics))
C21_MetricsAsClaimed ==
    helper.op = "TestReport" =>
        /\ helper.passRate.called =>
               helper.passRate.value = PassRateAsClaimed(helper.metrics)
        /\ helper.defectDensity.called =>
               helper.defectDensity.value = DefectDensityAsClaimed(helper.metrics)

\* C22: calculateDurationFromTimes() is end minus start rounded to the
\* nearest minute, and null when a time is missing or is not three numeric
\* parts separated by colons; autoCalculateDuration() stores that value in
\* duration when it is not null and otherwise changes nothing.
NumericPart(part) == part # <<>> /\ \A k \in DOMAIN part : IsDigit(part[k])
ThreeNumericParts(v) ==
    /\ v.t = "string"
    /\ Len(Split(v.s, ":")) = 3
    /\ \A i \in 1..3 : NumericPart(Split(v.s, ":")[i])
SecondsOfDay(v) ==
    3600 * DigitsValue(Split(v.s, ":")[1], 1, 0)
        + 60 * DigitsValue(Split(v.s, ":")[2], 1, 0)
        + DigitsValue(Split(v.s, ":")[3], 1, 0)
DurationAsClaimed(data) ==
    IF /\ ThreeNumericParts(Field(data, "startTime"))
       /\ ThreeNumericParts(Field(data, "endTime"))
    THEN RoundMinutes(SecondsOfDay(Field(data, "endTime"))
                          - SecondsOfDay(Field(data, "startTime")))
    ELSE JNull
C22_DurationAsClaimed ==
    helper.op = "TestSession" =>
        /\ helper.calculated.called =>
               helper.calculated.value = DurationAsClaimed(helper.data)
        /\ helper.auto =>
               helper.data = IF DurationAsClaimed(helper.before) # JNull
                             THEN MapSet(helper.before, "duration",
                                         DurationAsClaimed(helper.before))
                             ELSE helper.before

\* C23: however concurrent optimizeDirectoryScanning, cacheDirectoryStructure
\* and invalidateCache calls interleave at their awaits, between turns the
\* size getCacheStats reports is the number of entries the cache holds and
\* hits + misses is the number of completed optimizeDirectoryScanning calls;
\* two overlapping calls for one uncached path may both miss and leave one
\* entry under its key.
CompletedOptimize ==
    {i \in DOMAIN returned : returned[i].op = "optimizeDirectoryScanning"}
C23_CacheConsistent ==
    /\ getCacheStats.size = Cardinality(DOMAIN directoryCache)
    /\ getCacheStats.hits + getCacheStats.misses = Cardinality(CompletedOptimize)
    /\ getCacheStats.size <= Cardinality(CacheKeys)
\* Two calls for /a were both suspended at the scan, both counted a miss, and
\* the cache holds the one entry of /a.
C23_Witness ==
    /\ AllIdle
    /\ Len(returned) = 2
    /\ \A i \in 1..2 : /\ returned[i].op = "optimizeDirectoryScanning"
                       /\ returned[i].arg = "/a"
                       /\ ~returned[i].result.cached
    /\ getCacheStats.misses = 2
    /\ getCacheStats.size = 1
    /\ DOMAIN directoryCache = {ScanKey("/a")}

\* C24: the File System Service classifies a file name by the table the
\* Manifest Service infers with, first match winning: the group
\* groupManifestFiles puts a file in, the one type whose filter accepts it
\* and the type getManifestFileInfo reports all correspond to the schema type
\* processManifestFiles infers, and a file is in at most one group.
SchemaTypeOf(type) == IF type = "project" THEN "project" ELSE "test-" \o type
    \o (IF type = "status" THEN "-report" ELSE "")
GroupsHolding(filePath) ==
    {type \in DOMAIN helper.grouped.groups :
        filePath \in Range(helper.grouped.groups[type])}
C24_SameTypeTable ==
    (helper.op = "classify" /\ helper.done) =>
        \A i \in DOMAIN helper.discovered :
            /\ Cardinality(GroupsHolding(helper.discovered[i])) <= 1
            /\ \A type \in GroupsHolding(helper.discovered[i]) :
                   SchemaTypeOf(type) = helper.inferred[i]
            /\ \A type \in helper.passes[i] : SchemaTypeOf(type) = helper.inferred[i]
            /\ helper.info[i] # "unknown" => SchemaTypeOf(helper.info[i]) = helper.inferred[i]

\* C25: with validate:true every path of files is in exactly one of
\* validFiles and invalidFiles, so their lengths add up to totalFound; each
\* invalidFiles entry has a non-empty errors list; a file that cannot be read
\* or parsed is invalid and does not abort the discovery; without validate
\* both lists are absent.
Occurrences(list, x) == Cardinality({i \in DOMAIN list : list[i] = x})
InvalidPaths(result) ==
    [i \in DOMAIN result.invalidFiles.list |-> result.invalidFiles.list[i].path]
ReadsOrParses(read) == ~read.rejected /\ ~read.parsed.threw
C25_ValidationPartitions ==
    (discovery.called /\ "validate" \in DOMAIN discovery) =>
        LET result == discovery.result
            listingWorks ==
                discoverManifestFiles(discovery.directoryPath, discovery.recursive).success
        IN  /\ result.success = listingWorks
            /\ (result.success /\ ~discovery.validate) =>
                   ~result.validFiles.defined /\ ~result.invalidFiles.defined
            /\ (result.success /\ discovery.validate) =>
                   /\ result.validFiles.defined /\ result.invalidFiles.defined
                   /\ \A i \in DOMAIN result.files :
                          Occurrences(result.validFiles.list, result.files[i])
                              + Occurrences(InvalidPaths(result), result.files[i]) = 1
                   /\ Len(result.validFiles.list) + Len(result.invalidFiles.list)
                          = result.totalFound
                   /\ \A i \in DOMAIN result.invalidFiles.list :
                          result.invalidFiles.list[i].errors # <<>>
                   /\ \A i \in DOMAIN result.files :
                          ~ReadsOrParses(discovery.reads[result.files[i]]) =>
                              result.files[i] \in Range(InvalidPaths(result))
\* A validating discovery found a file that cannot be read, one that does
\* not parse and one that is valid.
C25_Witness ==
    /\ discovery.called
    /\ "validate" \in DOMAIN discovery
    /\ discovery.validate
    /\ discovery.result.success
    /\ Len(discovery.result.validFiles.list) = 1
    /\ \E i, j \in DOMAIN discovery.result.files :
           /\ discovery.reads[discovery.result.files[i]].rejected
           /\ ~discovery.reads[discovery.result.files[j]].rejected
           /\ discovery.reads[discovery.result.files[j]].parsed.threw
    /\ Len(discovery.result.invalidFiles.list) = 2

\* C26: diffManifestData puts each top-level key in at most one bucket: added
\* has exactly the keys only modified has, removed exactly the keys only
\* original has, modified exactly the common keys whose serialized values
\* differ; a record diffed with itself gives three empty buckets; original
\* with added and modified laid over it and the removed keys deleted is
\* modified.
Overlay(originalData, diff) ==
    [key \in (DOMAIN originalData \cup DOMAIN diff.added \cup DOMAIN diff.modified)
                 \ DOMAIN diff.removed |->
        IF key \in DOMAIN diff.modified THEN diff.modified[key]
        ELSE IF key \in DOMAIN diff.added THEN diff.added[key]
        ELSE originalData[key]]
C26_DiffBuckets ==
    (helper.op = "diffManifestData" /\ helper.done) =>
        LET original == helper.originalData
            modified == helper.modifiedData
            diff == helper.outcome
        IN  /\ DOMAIN diff.added \cap DOMAIN diff.modified = {}
            /\ DOMAIN diff.added \cap DOMAIN diff.removed = {}
            /\ DOMAIN diff.modified \cap DOMAIN diff.removed = {}
            /\ diff.added = Restrict(modified, DOMAIN modified \ DOMAIN original)
            /\ diff.removed = Restrict(original, DOMAIN original \ DOMAIN modified)
            /\ diff.modified =
                   Restrict(modified,
                            {key \in DOMAIN modified \cap DOMAIN original :
                                Stringify(original[key]) # Stringify(modified[key])})
            /\ original = modified =>
                   diff.added = <<>> /\ diff.modified = <<>> /\ diff.removed = <<>>
            /\ Overlay(original, diff) = modified


\* C27: retryOperation always resolves to a result envelope, either
\* { success: true, result, attempts } or { success: false, errorType:
\* 'max_retries_exceeded', error, attempts }, and never rejects, for every
\* maxRetries >= 0 including 0, where the operation is never invoked.
C27_AlwaysResolves ==
    retry.pc = "done" =>
        /\ retry.result.settled = "resolved"
        /\ \/ retry.result.success
           \/ retry.result.errorType = "max_retries_exceeded"
        /\ (retry.maxRetries = 0 => Invocations = 0)


\* C28: optimizeDirectoryScanning serves cache hits only for paths whose scan
\* succeeded: a failure envelope returned by scanDirectory is never stored
\* under 'scan-' + p, so a later call for p scans again instead of reporting
\* cached:true.
C28_OnlySuccessfulScansCached ==
    \A p \in Paths :
        ScanKey(p) \in DOMAIN directoryCache => directoryCache[ScanKey(p)].success


\* The close() invocations on watcher w that did not reject.
CloseCalls(w) ==
    {k \in DOMAIN closeLog : closeLog[k].watcherId = w /\ closeLog[k].outcome # "rejected"}
\* The stopWatching calls that returned { success: true, stopped: true } for w.
StoppedBy(w) ==
    {returned[k].call : k \in {j \in DOMAIN returned :
        /\ returned[j].op = "stopWatching"
        /\ returned[j].arg = w
        /\ returned[j].result.success}}
\* The cleanupWatchers calls that counted w in their cleanedUp.
CleanedBy(w) ==
    {returned[k].call : k \in {j \in DOMAIN returned :
        /\ returned[j].op = "cleanupWatchers"
        /\ \E i \in DOMAIN closeLog :
              /\ closeLog[i].call = returned[j].call
              /\ closeLog[i].watcherId = w
              /\ closeLog[i].outcome = "resolved"}}

\* C29: under any interleaving of concurrent stopWatching(w) and
\* cleanupWatchers calls, including two overlapping stopWatching(w) for the
\* same id, close() of a registered watcher is invoked at most once (counting
\* only invocations that did not reject), and at most one call reports having
\* stopped or cleaned up that watcher.
C29_ClosedOnce ==
    \A w \in WatcherIds :
        /\ Cardinality(CloseCalls(w)) <= 1
        /\ Cardinality(StoppedBy(w) \cup CleanedBy(w)) <= 1


\* What the getters of m or of c return: every top-level value, with a nested
\* array or object read through (getTags, getFindings, getMetadataValue,
\* getEstimatedHours).
Observed(mod, target) ==
    [key \in DOMAIN FieldsOf(mod, target) |->
        IF FieldsOf(mod, target)[key].t = "ref"
        THEN mod.heap[FieldsOf(mod, target)[key].ref]
        ELSE FieldsOf(mod, target)[key]]
Other(target) == IF target = "m" THEN "c" ELSE "m"

\* C30: after c = m.clone() the two models are independent: no operation on
\* c (set, update, addTag, addFinding, setMetadataValue, setEstimatedHours)
\* changes a value observable through m's getters, and no operation on m
\* changes c.
C30_CloneIndependent ==
    [][(model.constructed /\ model.cloned) =>
           Observed(model', Other(model'.lastCall.on))
               = Observed(model, Other(model'.lastCall.on))]_vars

====
